---- MODULE Spec2Model ----
(***************************************************************************)
(* A model of the consensus engine of the CS3235 blockchain node.          *)
(*                                                                         *)
(* This part models lib_chain/src/block.rs: the BlockTree, its genesis     *)
(* state (BlockTree::new) and block admission (BlockTree::add_block, with  *)
(* BlockNode::validate_block and Transaction::verify_sig / gen_hash), the  *)
(* queries get_block, get_finalized_blocks_since and                       *)
(* get_pending_finalization_txs; lib_tx_pool/src/pool.rs: the TxPool with *)
(* add_tx, del_tx, filter_tx and remove_txs_from_finalized_blocks;         *)
(* lib_miner/src/miner.rs: Miner::solve_puzzle, its coordinator and its    *)
(* worker threads; lib_network/src/p2pnetwork.rs: P2PNetwork::create and   *)
(* the listener, reader and writer threads it spawns;                     *)
(* bin_nakamoto/src/nakamoto.rs: create_puzzle, publish_tx, the two        *)
(* mutexes they lock, and the node create_nakamoto returns.                *)
(*                                                                         *)
(* Specifications: Spec (a tree handed the blocks of BlockUniverse),       *)
(* SpecEmptyChain (a tree handed a chain of six empty blocks), SpecQueries *)
(* (a tree that is handed blocks and queried), SpecPool (a pool that is    *)
(* handed transactions and finalized blocks), SpecMiner (one call of       *)
(* solve_puzzle) and SpecNetwork (one call of create, the peers and the    *)
(* engine), the last two also under a fair scheduler (SpecMinerFair,       *)
(* SpecNetworkFair); SpecEngine (a thread that builds puzzles and a main   *)
(* thread that publishes transactions, over a chain that grows), SpecNode  *)
(* (the node create_nakamoto returns and its peers; SpecNodeFair under a   *)
(* fair scheduler) and SpecOrder (two trees handed the same blocks in any  *)
(* two orders).                                                            *)
(*                                                                         *)
(* Abstractions, all injective so that no two distinct inputs collide:     *)
(*  - a BlockId is a sequence of hex digits (0..15); the genesis id "0" is *)
(*    <<0>>.  String comparison is lexicographic comparison of sequences.  *)
(*  - SHA-256 over nonce||puzzle_json is a lookup in the table of the      *)
(*    blocks that were really mined; any other preimage hashes to a digest *)
(*    that no block of the universe claims.                                *)
(*  - a TxId (gen_hash) is the tuple of the serialised transaction fields. *)
(*  - an RSA signature is the pair (signer, signed payload).               *)
(*  - a transaction message is the record of its parsed amount and its     *)
(*    opaque comment; a nonce is a number, the empty nonce of a candidate  *)
(*    block is 0 and its empty block_id the empty sequence.                *)
(*  - a merkle root is the list of the TxIds it commits to; the genesis    *)
(*    block's literal root "0" and literal signature "GENESIS" are records *)
(*    of the same shape that equal no computed root or signature.          *)
(*  - for the miner a string is the sequence of its bytes, and the digest  *)
(*    of a preimage is a run of '0' characters followed by the preimage.   *)
(*  - a line of the network is its tag and its JSON text; a JSON text is   *)
(*    the value it encodes together with the form it is written in.        *)
(***************************************************************************)
EXTENDS Integers, Sequences, FiniteSets, TLC

\* ------------------------------------------------------------------------
\* Constants of the program
\* ------------------------------------------------------------------------

\* "SEND $299792458" in the genesis transaction
GENESIS_AMOUNT == 299792458

\* the mining reward credited to reward_receiver
MINING_REWARD == 10

\* the hard-coded receiver of the genesis transaction
ALICE == "MDgCMQCqrJ1y"

BOB == "Bob"

CAROL == "Carol"

MINER == "Miner"

\* the id of the genesis block, the string "0"
GENESIS_ID == <<0>>

\* ------------------------------------------------------------------------
\* Bounds of the model
\* ------------------------------------------------------------------------

\* number of blocks of the main chain K(1) <- K(2) <- ... of the universe
ChainLen == 7

\* the capacity of the transaction pool.  pool.rs sets it to 10000; the pool
\* of the model is full after a few transactions, so that the behaviour of a
\* full pool is reached.
MAX_TX_POOL == 3

\* the largest max_count handed to filter_tx
MaxCount == 2

\* the length of the main chain handed to a tree that is queried
QueryChainLen == 3

\* the largest thread_count, nonce_len, leading_zero_len and thread_0_seed
\* handed to solve_puzzle
MaxThreadCount == 2

MaxNonceLen == 2

MaxDifficulty == 2

MaxSeed == 1

\* the period of the random number generator of the model
RngModulus == 8

\* the number of configured neighbors and of inbound connections
NumNeighbors == 2

MaxInbound == 1

\* the number of lines the peers send and of values the engine broadcasts
MaxLines == 2

MaxWrites == 1

\* the largest tx_count handed to create_puzzle
MaxTxCount == 2

\* ------------------------------------------------------------------------
\* Transactions
\* ------------------------------------------------------------------------

\* Transaction::new
Transaction(sender, receiver, message, sig) ==
    [sender |-> sender, receiver |-> receiver, message |-> message, sig |-> sig]

\* the wallet's signature of ["sender","receiver","message"] by `signer`
SignedBy(signer, sender, receiver, message) ==
    [signer |-> signer, payload |-> <<sender, receiver, message>>]

\* a transaction "SEND $amount // comment" correctly signed by its sender
SignedTx(sender, receiver, amount, comment) ==
    LET message == [amount |-> amount, comment |-> comment]
    IN  Transaction(sender, receiver, message,
                    SignedBy(sender, sender, receiver, message))

\* Transaction::gen_hash: sha256 of the serialised transaction
gen_hash(tx) == <<tx.sender, tx.receiver, tx.message, tx.sig>>

\* Transaction::verify_sig
verify_sig(tx) ==
    /\ tx.sig.signer = tx.sender
    /\ tx.sig.payload = <<tx.sender, tx.receiver, tx.message>>

\* the user ids that are the base64 text of an RSA public key
UserKeys == {ALICE, BOB, CAROL, MINER}

\* verify_sig does not return: the sender is shorter than the 64 characters
\* it slices off, or is no PKCS#1 key, or the signature is no base64 text of
\* an RSA signature (each an unwrap or an index that panics)
verify_sig_panics(tx) ==
    \/ tx.sender \notin UserKeys
    \/ tx.sig.signer \notin UserKeys

\* the amount add_block parses out of the message (between '$' and ' ')
ParseAmount(message) == message.amount

\* ------------------------------------------------------------------------
\* Blocks
\* ------------------------------------------------------------------------

\* the Puzzle struct derived from a block header
Puzzle(header) ==
    [parent |-> header.parent, merkle_root |-> header.merkle_root,
     reward_receiver |-> header.reward_receiver]

\* the symbolic merkle root of a transaction list
RootOf(txs) == [kind |-> "sha256", of |-> [i \in 1..Len(txs) |-> gen_hash(txs[i])]]

\* a BlockNode whose merkle tree and header agree with its transactions
MakeBlock(block_id, parent, nonce, reward_receiver, txs) ==
    [header |-> [parent |-> parent,
                 merkle_root |-> RootOf(txs),
                 timestamp |-> 1,
                 block_id |-> block_id,
                 nonce |-> nonce,
                 reward_receiver |-> reward_receiver],
     transactions_block |-> [merkle_tree |-> [hashes |-> << <<RootOf(txs)>> >>],
                             transactions |-> txs]]

\* BlockNode::genesis_block
genesis_block ==
    [header |-> [parent |-> GENESIS_ID,
                 merkle_root |-> [kind |-> "0", of |-> <<>>],
                 timestamp |-> 0,
                 block_id |-> GENESIS_ID,
                 nonce |-> 0,
                 reward_receiver |-> "GENESIS"],
     transactions_block |->
        [merkle_tree |-> [hashes |-> <<>>],
         transactions |->
            <<Transaction("GENESIS", ALICE,
                          [amount |-> GENESIS_AMOUNT, comment |-> 0],
                          [signer |-> "GENESIS", payload |-> <<>>])>>]]

\* ------------------------------------------------------------------------
\* The universe of blocks a node can be handed (its own and its peers')
\* ------------------------------------------------------------------------

tx_ab == SignedTx(ALICE, BOB, 100, 1)

tx_bc == SignedTx(BOB, CAROL, 60, 2)

tx_bc2 == SignedTx(BOB, CAROL, 60, 3)

tx_ac == SignedTx(ALICE, CAROL, 7, 4)

\* a transaction whose signature was not made by its sender
tx_forged == Transaction(ALICE, CAROL, [amount |-> 5, comment |-> 5],
                         SignedBy(CAROL, ALICE, CAROL, [amount |-> 5, comment |-> 5]))

\* the id of the i-th block of the main chain; K(0) is genesis
KId(i) == IF i = 0 THEN GENESIS_ID ELSE <<0, 1, i>>

\* the main chain: K(1) carries tx_ab, K(2) carries tx_bc, the others nothing
KBlock(i) ==
    MakeBlock(KId(i), KId(i - 1), i, MINER,
              IF i = 1 THEN <<tx_ab>> ELSE IF i = 2 THEN <<tx_bc>> ELSE <<>>)

\* a sibling of K(1) with a lexicographically smaller id
F1 == MakeBlock(<<0, 0, 5>>, GENESIS_ID, 101, BOB, <<tx_ac>>)

\* a child of K(1) that repeats K(1)'s transaction
F2 == MakeBlock(<<0, 2, 1>>, KId(1), 102, CAROL, <<tx_ab>>)

\* a child of K(1) in which Bob, who holds $100, spends $60 twice
F3 == MakeBlock(<<0, 2, 2>>, KId(1), 103, CAROL, <<tx_bc, tx_bc2>>)

\* a child of F1 in which Bob spends $60 that he holds on K(1)'s chain only
F4 == MakeBlock(<<0, 2, 3>>, <<0, 0, 5>>, 104, CAROL, <<tx_bc>>)

\* a mined block whose hash lacks the leading zero
X1 == MakeBlock(<<3, 0, 0>>, GENESIS_ID, 201, MINER, <<>>)

\* the blocks whose block_id is the hash of their nonce and puzzle
MinedBlocks == {KBlock(i) : i \in 1..ChainLen} \cup {F1, F2, F3, F4, X1}

\* a block whose block_id is not the hash of its nonce and puzzle
X2 == MakeBlock(<<0, 9, 9>>, GENESIS_ID, 202, MINER, <<>>)

\* a mined block carrying a transaction with a forged signature
X3 == MakeBlock(<<0, 9, 8>>, GENESIS_ID, 203, MINER, <<tx_forged>>)

\* a mined block whose header names another merkle root than its merkle tree
X4 ==
    LET b == MakeBlock(<<0, 9, 7>>, GENESIS_ID, 204, MINER, <<tx_ab>>)
    IN  [b EXCEPT !.header.merkle_root = RootOf(<<>>)]

BlockUniverse == MinedBlocks \cup {X2, X3, X4}

\* the id of the i-th block of a chain of blocks without transactions
EId(i) == IF i = 0 THEN GENESIS_ID ELSE <<0, 3, i>>

\* a chain of six mined blocks that carry no transaction
EBlock(i) == MakeBlock(EId(i), EId(i - 1), 300 + i, MINER, <<>>)

EmptyChain == {EBlock(i) : i \in 1..6}

\* hex(SHA256(nonce || puzzle_json)): the digest of a mined block is its id,
\* X3 and X4 were mined too, anything else hashes to an unclaimed digest
sha256_hex(nonce, puzzle) ==
    LET hit == {b \in MinedBlocks \cup {X3, X4} \cup EmptyChain :
                    b.header.nonce = nonce /\ Puzzle(b.header) = puzzle}
    IN  IF hit = {} THEN <<15, 15, 15>>
        ELSE (CHOOSE b \in hit : TRUE).header.block_id

\* block_id.starts_with("0".repeat(leading_zero_len))
starts_with_zeros(block_id, leading_zero_len) ==
    /\ Len(block_id) >= leading_zero_len
    /\ \A i \in 1..leading_zero_len : block_id[i] = 0

\* BlockNode::validate_block
validate_block(block, leading_zero_len) ==
    LET block_id == block.header.block_id
        res == sha256_hex(block.header.nonce, Puzzle(block.header))
        txs == block.transactions_block.transactions
        hashes == block.transactions_block.merkle_tree.hashes
    IN  IF ~starts_with_zeros(block_id, leading_zero_len) THEN <<FALSE, block_id>>
        ELSE IF res # block_id THEN <<FALSE, res>>
        ELSE IF ~(\A i \in 1..Len(txs) : verify_sig(txs[i])) THEN <<FALSE, block_id>>
        ELSE IF hashes[Len(hashes)][1] # block.header.merkle_root
             THEN <<FALSE, block_id>>
        ELSE <<TRUE, block_id>>

\* ------------------------------------------------------------------------
\* HashMap helpers
\* ------------------------------------------------------------------------

EmptyMap == [k \in {} |-> 0]

\* HashMap::insert
Insert(map, key, value) ==
    [k \in DOMAIN map \cup {key} |-> IF k = key THEN value ELSE map[k]]

\* HashMap::remove
Remove(map, key) == [k \in DOMAIN map \ {key} |-> map[k]]

\* ------------------------------------------------------------------------
\* BlockTree
\* ------------------------------------------------------------------------

\* difficulty_leading_zero_len_acc of the node's configuration
LEADING_ZERO_LEN == 1

\* BlockTree::new
NewBlockTree ==
    [all_blocks |-> Insert(EmptyMap, GENESIS_ID, genesis_block),
     children_map |-> EmptyMap,
     block_depth |-> Insert(EmptyMap, GENESIS_ID, 0),
     root_id |-> GENESIS_ID,
     working_block_id |-> GENESIS_ID,
     orphans |-> EmptyMap,
     finalized_block_id |-> GENESIS_ID,
     finalized_balance_map |->
        Insert(EmptyMap, genesis_block.transactions_block.transactions[1].receiver,
               ParseAmount(genesis_block.transactions_block.transactions[1].message)),
     finalized_tx_ids |-> {}]

\* the TxIds of a block's transactions
TxIdsOf(block) ==
    {gen_hash(block.transactions_block.transactions[i]) :
        i \in 1..Len(block.transactions_block.transactions)}

\* a walk over the ancestors that starts one block too high: it leaves out
\* the transactions of ancestor_node itself
RECURSIVE tx_ids_from(_, _)
tx_ids_from(all_blocks, node) ==
    IF node = GENESIS_ID THEN {}
    ELSE TxIdsOf(all_blocks[node])
            \cup tx_ids_from(all_blocks, all_blocks[node].header.parent)

ancestor_tx_ids_skip_first(all_blocks, ancestor_node) ==
    IF ancestor_node = GENESIS_ID THEN {}
    ELSE tx_ids_from(all_blocks, all_blocks[ancestor_node].header.parent)

RECURSIVE ancestor_tx_ids(_, _)

\* add_block's walk over the ancestors: the TxIds of the blocks from
\* ancestor_node up to, but excluding, the genesis block
ancestor_tx_ids(all_blocks, ancestor_node) ==
    IF ancestor_node = GENESIS_ID THEN {}
    ELSE TxIdsOf(all_blocks[ancestor_node])
            \cup ancestor_tx_ids(all_blocks, all_blocks[ancestor_node].header.parent)

\* add_block's transfer loop over txs[i..]: the balance map after the
\* transfers, or the failure of the first sender who cannot pay
RECURSIVE transfer(_, _, _)
transfer(balance_map, txs, i) ==
    IF i > Len(txs) THEN [ok |-> TRUE, balance_map |-> balance_map]
    ELSE LET sender == txs[i].sender
             receiver == txs[i].receiver
             amount == ParseAmount(txs[i].message)
         IN  IF sender \notin DOMAIN balance_map \/ balance_map[sender] < amount
             THEN [ok |-> FALSE, balance_map |-> balance_map]
             ELSE LET debited == [balance_map EXCEPT ![sender] = @ - amount]
                      credited ==
                          IF receiver \notin DOMAIN debited
                          THEN Insert(debited, receiver, amount)
                          ELSE [debited EXCEPT ![receiver] = @ + amount]
                  IN  transfer(credited, txs, i + 1)

\* the credit of the mining reward
reward(balance_map, reward_receiver) ==
    IF reward_receiver \in DOMAIN balance_map
    THEN [balance_map EXCEPT ![reward_receiver] = @ + MINING_REWARD]
    ELSE Insert(balance_map, reward_receiver, MINING_REWARD)

\* the working block after `block` was inserted
new_working_block_id(bt, block) == block.header.block_id

\* a finalized block that is not moved when a block is inserted
stale_finalized_block_id(bt, block) == bt.finalized_block_id

\* the finalized block after `block` was inserted
new_finalized_block_id(bt, block) == block.header.parent

\* the finalized TxIds after `block` was inserted
new_finalized_tx_ids(bt, block) ==
    TxIdsOf(Insert(bt.all_blocks, block.header.block_id, block)
                [new_finalized_block_id(bt, block)])

\* the children list of parent_id after block_id was pushed
push_child(children_map, parent_id, block_id) ==
    IF parent_id \in DOMAIN children_map
    THEN [children_map EXCEPT ![parent_id] = Append(@, block_id)]
    ELSE Insert(children_map, parent_id, <<block_id>>)

\* a depth counted from the working block instead of the parent
working_block_depth(bt, block) == bt.block_depth[bt.working_block_id] + 1

\* the depth of `block`: one more than its parent's
new_block_depth(bt, block) == bt.block_depth[block.header.parent] + 1

\* add_block's updates of the tree once `block` passed every check
insert_block(bt, block, balance_map) ==
    LET block_id == block.header.block_id
        parent_id == block.header.parent
    IN  [bt EXCEPT
            !.all_blocks = Insert(@, block_id, block),
            !.working_block_id = new_working_block_id(bt, block),
            !.finalized_block_id = new_finalized_block_id(bt, block),
            !.finalized_tx_ids = new_finalized_tx_ids(bt, block),
            !.children_map = push_child(@, parent_id, block_id),
            !.finalized_balance_map = reward(balance_map, block.header.reward_receiver),
            !.block_depth = Insert(@, block_id, new_block_depth(bt, block))]

\* a block without a known parent that is accepted and forgotten
drop_orphan(bt, block) == bt

\* add_block's parking of a block whose parent is not in all_blocks
park_orphan(bt, block) ==
    [bt EXCEPT !.orphans = Insert(@, block.header.block_id, block)]

\* a check that looks into the block tree only
block_in_tree(bt, block_id) == block_id \in DOMAIN bt.all_blocks

\* add_block's first check: the id is a key of all_blocks or of orphans
block_exists(bt, block_id) ==
    block_id \in DOMAIN bt.all_blocks \/ block_id \in DOMAIN bt.orphans

Ok == "Ok"

Err(message) == "Err: " \o message

\* BlockTree::add_block: the set of outcomes [bt, result] of the call.  There
\* is more than one where the call re-admits several orphans: the code takes
\* them in the iteration order of a HashMap, which is any order.
RECURSIVE add_block(_, _, _)
RECURSIVE add_orphans(_, _, _)
add_block(bt, block, leading_zero_len) ==
    LET block_id == block.header.block_id
        parent_id == block.header.parent
        txs == block.transactions_block.transactions
    IN  IF block_exists(bt, block_id)
        THEN {[bt |-> bt, result |-> Err("exists")]}
        ELSE IF validate_block(block, leading_zero_len) # <<TRUE, block_id>>
        THEN {[bt |-> bt, result |-> Err("not valid")]}
        ELSE IF parent_id \notin DOMAIN bt.all_blocks
        THEN {[bt |-> park_orphan(bt, block), result |-> Ok]}
        ELSE IF \E i \in 1..Len(txs) :
                    gen_hash(txs[i]) \in ancestor_tx_ids(bt.all_blocks, parent_id)
        THEN {[bt |-> bt, result |-> Err("duplicate transactions")]}
        ELSE LET paid == transfer(bt.finalized_balance_map, txs, 1)
             IN  IF ~paid.ok
                 THEN {[bt |-> bt, result |-> Err("not enough balance")]}
                 ELSE LET inserted == insert_block(bt, block, paid.balance_map)
                          orphans_to_add ==
                              {orphan_id \in DOMAIN inserted.orphans :
                                  inserted.orphans[orphan_id].header.parent = block_id}
                      IN  add_orphans(inserted, orphans_to_add, leading_zero_len)

\* add_block's loop over orphans_to_add: each orphan is removed from the
\* orphan map and re-admitted; the first failure ends the call with `?`
add_orphans(bt, orphans_to_add, leading_zero_len) ==
    IF orphans_to_add = {} THEN {[bt |-> bt, result |-> Ok]}
    ELSE UNION {
            LET orphan_block == bt.orphans[orphan_id]
                removed == [bt EXCEPT !.orphans = Remove(@, orphan_id)]
            IN  UNION {
                    IF out.result = Ok
                    THEN add_orphans(out.bt, orphans_to_add \ {orphan_id},
                                     leading_zero_len)
                    ELSE {out}
                    : out \in add_block(removed, orphan_block, leading_zero_len)}
            : orphan_id \in orphans_to_add}

\* BlockTree::get_block, an Option<BlockNode>: the set of the blocks found,
\* empty for None
get_block(bt, block_id) ==
    {bt.all_blocks[k] :
        k \in {k \in DOMAIN bt.all_blocks :
                  bt.all_blocks[k].header.block_id = block_id}}

\* the outcomes of a query: it returns a list, it panics on the unwrap of a
\* block that get_block did not find, or it never leaves its loop (it pushes
\* to its list on every turn until the allocation fails)
Returned(value) == [outcome |-> "return", value |-> value]

Panicked == [outcome |-> "panic", value |-> <<>>]

Diverges == [outcome |-> "diverges", value |-> <<>>]

\* the loop of get_finalized_blocks_since at block_id.  A block that is its
\* own parent (the genesis block) is visited again on every further turn.
RECURSIVE finalized_blocks_loop(_, _, _)
finalized_blocks_loop(bt, block_id, finalized_blocks) ==
    IF block_id = bt.finalized_block_id THEN Returned(finalized_blocks)
    ELSE IF get_block(bt, block_id) = {} THEN Panicked
    ELSE LET block == CHOOSE b \in get_block(bt, block_id) : TRUE
         IN  IF block.header.parent = block_id THEN Diverges
             ELSE finalized_blocks_loop(bt, block.header.parent,
                                        Append(finalized_blocks, block))

\* BlockTree::get_finalized_blocks_since
get_finalized_blocks_since(bt, since_block_id) ==
    finalized_blocks_loop(bt, since_block_id, <<>>)

\* the loop of get_pending_finalization_txs at block_id
RECURSIVE pending_txs_loop(_, _, _)
pending_txs_loop(bt, block_id, pending_txs) ==
    IF block_id = bt.finalized_block_id THEN Returned(pending_txs)
    ELSE IF get_block(bt, block_id) = {} THEN Panicked
    ELSE LET block == CHOOSE b \in get_block(bt, block_id) : TRUE
             kept == SelectSeq(block.transactions_block.transactions,
                               LAMBDA tx : gen_hash(tx) \notin bt.finalized_tx_ids)
         IN  IF block.header.parent = block_id THEN Diverges
             ELSE pending_txs_loop(bt, block.header.parent, pending_txs \o kept)

\* a walk that starts at the working block's parent
pending_txs_from_parent(bt) ==
    pending_txs_loop(bt, bt.all_blocks[bt.working_block_id].header.parent, <<>>)

\* BlockTree::get_pending_finalization_txs
get_pending_finalization_txs(bt) ==
    pending_txs_loop(bt, bt.working_block_id, <<>>)

\* ------------------------------------------------------------------------
\* TxPool
\* ------------------------------------------------------------------------

\* TxPool::new
NewTxPool ==
    [pool_tx_ids |-> <<>>,
     pool_tx_map |-> EmptyMap,
     last_finalized_block_id |-> GENESIS_ID,
     removed_tx_ids |-> {}]

\* a capacity check that never rejects
pool_never_full(pool) == FALSE

\* add_tx's capacity check
pool_is_full(pool) == Len(pool.pool_tx_ids) >= MAX_TX_POOL

\* TxPool::add_tx: the pool after the call and its result, "true" or "false"
\* for the value returned, "panic" where verify_sig panics
add_tx(pool, tx) ==
    IF \/ gen_hash(tx) \in DOMAIN pool.pool_tx_map
       \/ gen_hash(tx) \in pool.removed_tx_ids
    THEN [pool |-> pool, result |-> "false"]
    ELSE IF pool_is_full(pool) THEN [pool |-> pool, result |-> "false"]
    ELSE IF verify_sig_panics(tx) THEN [pool |-> pool, result |-> "panic"]
    ELSE IF ~verify_sig(tx) THEN [pool |-> pool, result |-> "false"]
    ELSE [pool |-> [pool EXCEPT
                        !.pool_tx_ids = Append(@, gen_hash(tx)),
                        !.pool_tx_map = Insert(@, gen_hash(tx), tx)],
          result |-> "true"]

\* a del_tx that records the TxId only of a transaction it found in the pool
del_tx_if_present(pool, tx_id) ==
    IF tx_id \in DOMAIN pool.pool_tx_map
    THEN [pool EXCEPT
            !.pool_tx_map = Remove(@, tx_id),
            !.removed_tx_ids = @ \cup {tx_id},
            !.pool_tx_ids = SelectSeq(@, LAMBDA id : id # tx_id)]
    ELSE pool

\* TxPool::del_tx
del_tx(pool, tx_id) ==
    IF tx_id \in DOMAIN pool.pool_tx_map
    THEN [pool EXCEPT
            !.pool_tx_map = Remove(@, tx_id),
            !.removed_tx_ids = @ \cup {tx_id},
            !.pool_tx_ids = SelectSeq(@, LAMBDA id : id # tx_id)]
    ELSE [pool EXCEPT !.removed_tx_ids = @ \cup {tx_id}]

\* the loop of filter_tx at pool_tx_ids[i], with the list and the u16 count
\* it has built
RECURSIVE filter_tx_loop(_, _, _, _, _, _)
filter_tx_loop(pool, max_count, excluding_txs, i, filtered_txs, count) ==
    IF i > Len(pool.pool_tx_ids) THEN filtered_txs
    ELSE LET tx_id == pool.pool_tx_ids[i]
         IN  IF \/ \E j \in 1..Len(excluding_txs) :
                        gen_hash(excluding_txs[j]) = tx_id
                \/ tx_id \notin DOMAIN pool.pool_tx_map
             THEN filter_tx_loop(pool, max_count, excluding_txs, i + 1,
                                 filtered_txs, count)
             ELSE LET pushed == Append(filtered_txs, pool.pool_tx_map[tx_id])
                      counted == (count + 1) % 65536
                  IN  IF counted = max_count THEN pushed
                      ELSE filter_tx_loop(pool, max_count, excluding_txs,
                                          i + 1, pushed, counted)

\* TxPool::filter_tx
filter_tx(pool, max_count, excluding_txs) ==
    filter_tx_loop(pool, max_count, excluding_txs, 1, <<>>, 0)

\* del_tx for each of txs[i..]
RECURSIVE del_txs(_, _, _)
del_txs(pool, txs, i) ==
    IF i > Len(txs) THEN pool
    ELSE del_txs(del_tx(pool, gen_hash(txs[i])), txs, i + 1)

\* the loop of remove_txs_from_finalized_blocks at finalized_blocks[n]
RECURSIVE del_block_txs(_, _, _)
del_block_txs(pool, finalized_blocks, n) ==
    IF n > Len(finalized_blocks) THEN pool
    ELSE del_block_txs(
            del_txs(pool, finalized_blocks[n].transactions_block.transactions, 1),
            finalized_blocks, n + 1)

\* a removal that records the id of the first block of the list
remove_txs_record_first(pool, finalized_blocks) ==
    LET deleted == del_block_txs(pool, finalized_blocks, 1)
    IN  IF Len(finalized_blocks) = 0
        THEN [pool |-> deleted, result |-> "panic"]
        ELSE [pool |-> [deleted EXCEPT !.last_finalized_block_id =
                            finalized_blocks[1].header.block_id],
              result |-> "unit"]

\* TxPool::remove_txs_from_finalized_blocks: the pool after the call and its
\* result, "unit" where it returns, "panic" where last() of the list is None
remove_txs_from_finalized_blocks(pool, finalized_blocks) ==
    LET deleted == del_block_txs(pool, finalized_blocks, 1)
    IN  IF Len(finalized_blocks) = 0
        THEN [pool |-> deleted, result |-> "panic"]
        ELSE [pool |-> [deleted EXCEPT !.last_finalized_block_id =
                            finalized_blocks[Len(finalized_blocks)].header.block_id],
              result |-> "unit"]

\* ------------------------------------------------------------------------
\* Puzzle construction (bin_nakamoto/src/nakamoto.rs)
\* ------------------------------------------------------------------------

\* MerkleTree::create_merkle_tree: it panics on an empty list
create_merkle_tree(txs) ==
    IF txs = <<>> THEN Panicked
    ELSE Returned([root |-> RootOf(txs),
                   tree |-> [hashes |-> << <<RootOf(txs)>> >>]])

\* the loop of create_puzzle that collects the pool transactions whose id is
\* not in finalized_tx_ids
not_finalized_txs(bt, pool) ==
    LET ids == SelectSeq(pool.pool_tx_ids,
                         LAMBDA tx_id : tx_id \notin bt.finalized_tx_ids)
    IN  [i \in 1..Len(ids) |-> pool.pool_tx_map[ids[i]]]

\* create_puzzle: the puzzle and the incomplete block, whose nonce and
\* block_id are empty
create_puzzle(bt, pool, tx_count, reward_receiver) ==
    LET excluding_txs == not_finalized_txs(bt, pool)
        filtered_txs == filter_tx(pool, tx_count, excluding_txs)
        found == get_block(bt, bt.working_block_id)
    IN  IF found = {} THEN Panicked
        ELSE
        LET last_block == CHOOSE block \in found : TRUE
            puzzle == [parent |-> last_block.header.parent,
                       merkle_root |-> last_block.header.merkle_root,
                       reward_receiver |-> reward_receiver]
            merkle == create_merkle_tree(filtered_txs)
        IN  IF merkle.outcome = "panic" THEN Panicked
            ELSE Returned(
                   [puzzle |-> puzzle,
                    pre_block |->
                       [header |-> [parent |-> last_block.header.parent,
                                    merkle_root |->
                                        last_block.header.merkle_root,
                                    timestamp |-> 1,
                                    block_id |-> <<>>,
                                    nonce |-> 0,
                                    reward_receiver |-> reward_receiver],
                        transactions_block |->
                           [merkle_tree |-> merkle.value.tree,
                            transactions |-> filtered_txs]]])

\* ------------------------------------------------------------------------
\* The miner (lib_miner/src/miner.rs)
\* ------------------------------------------------------------------------

\* a string is the sequence of its bytes.  The nonce is drawn from the
\* letters b'A'..; a puzzle is a JSON text, which starts with '{'
NonceChars == <<65, 66, 67>>

MinerPuzzles == {<<123, 1>>, <<123, 2>>}

\* the generator seeded with a u64: a linear congruential generator of
\* period RngModulus stands for StdRng
seed_from_u64(thread_seed) == thread_seed % RngModulus

next_u32(rng) == (5 * rng + 3) % RngModulus

\* rng.gen_range(b'A'..=b'Z') as char, on the generator state after a draw
gen_range(rng) == NonceChars[(rng % Len(NonceChars)) + 1]

\* (0..nonce_len).map(|_| rng.gen_range(..)).collect(): the nonce and the
\* state of the generator after nonce_len draws
RECURSIVE gen_nonce(_, _)
gen_nonce(rng, nonce_len) ==
    IF nonce_len = 0 THEN [nonce |-> <<>>, rng |-> rng]
    ELSE LET drawn == next_u32(rng)
             rest == gen_nonce(drawn, nonce_len - 1)
         IN  [nonce |-> <<gen_range(drawn)>> \o rest.nonce, rng |-> rest.rng]

RECURSIVE SumBytes(_)
SumBytes(bytes) ==
    IF bytes = <<>> THEN 0 ELSE bytes[1] + SumBytes(Tail(bytes))

\* hex::encode(Sha256(nonce || puzzle)): a digest is a number of '0'
\* characters that depends on every byte of the preimage, followed by the
\* preimage itself, whose bytes are not 0; no two preimages share a digest
hex_sha256(nonce, puzzle) ==
    LET preimage == nonce \o puzzle
    IN  [i \in 1..(SumBytes(preimage) % 3) |-> 0] \o preimage

\* the PuzzleSolution struct
PuzzleSolution(puzzle, nonce, hash) ==
    [puzzle |-> puzzle, nonce |-> nonce, hash |-> hash]

\* a worker that sends whatever it hashed first
search_unchecked(rng, puzzle, nonce_len, leading_zero_len) ==
    LET gen == gen_nonce(rng, nonce_len)
        hash == hex_sha256(gen.nonce, puzzle)
    IN  [rng |-> gen.rng, found |-> TRUE,
         solution |-> PuzzleSolution(puzzle, gen.nonce, hash)]

\* one iteration of a worker after its look at the cancellation token: the
\* nonce it draws, the hash, and whether the hash starts with the target
search(rng, puzzle, nonce_len, leading_zero_len) ==
    LET gen == gen_nonce(rng, nonce_len)
        hash == hex_sha256(gen.nonce, puzzle)
    IN  [rng |-> gen.rng,
         found |-> starts_with_zeros(hash, leading_zero_len),
         solution |-> PuzzleSolution(puzzle, gen.nonce, hash)]

\* a worker seeded with its index only
thread_index_seed(thread_0_seed, i) == i

\* let thread_seed = thread_0_seed + i as u64 (the seeds of the model are
\* far below 2^64)
thread_seed(thread_0_seed, i) == thread_0_seed + i

\* ------------------------------------------------------------------------
\* The network (lib_network/src/p2pnetwork.rs)
\* ------------------------------------------------------------------------

\* the configured neighbors, in the order of the neighbors list
Neighbors == 1..NumNeighbors

\* the inbound connections the listener may accept
Inbound == 1..MaxInbound

\* a JSON text is the value it encodes, the type of that value and the form
\* it is written in.  serde_json::to_string writes a struct as an "object"
\* ({"field":value,...}); from_str reads a struct from an object and also
\* from an "array" of its fields in order ([value,...]); a BlockId is a
\* "string".  A "piece" is a part of a JSON text that is not a JSON text
Json(form, type, value) == [form |-> form, type |-> type, value |-> value]

NoJson == Json("absent", "none", [none |-> TRUE])

\* a line "<tag>:<json>", or "<tag>" alone when the JSON text is absent
Line(tag, json) == [tag |-> tag, json |-> json]

\* msg.trim().split(":"): parts[0] is the tag, the other parts are what lies
\* between the ':' characters of the rest.  An object has a ':' after every
\* field name and falls into pieces; an array or a string whose strings hold
\* no ':' stays whole
split(msg) ==
    [tag |-> msg.tag,
     rest |-> IF msg.json.form = "absent" THEN <<>>
              ELSE IF msg.json.form = "object"
              THEN <<[msg.json EXCEPT !.form = "piece"],
                     [msg.json EXCEPT !.form = "piece"]>>
              ELSE <<msg.json>>]

\* serde_json::from_str::<type>(text) is Ok
from_str_ok(text, type) ==
    /\ text.type = type
    /\ text.form \in (IF type = "BlockId" THEN {"string"}
                      ELSE {"object", "array"})

\* what the reader of an accepted connection does with a line: parts[1] is
\* indexed and the result of from_str unwrapped, then the value is sent on
\* the channel of its type.  The send is unwrapped too
inbound_handle(msg) ==
    LET parts == split(msg)
        type == CASE parts.tag = "block" -> "BlockNode"
                  [] parts.tag = "tx" -> "Transaction"
                  [] parts.tag = "block_id" -> "BlockId"
                  [] OTHER -> "none"
    IN  IF type = "none" THEN [kind |-> "ignore"]
        ELSE IF Len(parts.rest) = 0 THEN [kind |-> "panic"]
        ELSE IF ~from_str_ok(parts.rest[1], type) THEN [kind |-> "panic"]
        ELSE [kind |-> "send", type |-> type, value |-> parts.rest[1].value]

\* what the reader of a connection the node opened does with a line: a block
\* or a transaction is parsed, counted and the line is sent on the channel
\* of a writer; a block_id is passed on to a random neighbor
outbound_handle(msg) ==
    LET parts == split(msg)
        type == CASE parts.tag = "block" -> "BlockNode"
                  [] parts.tag = "tx" -> "Transaction"
                  [] parts.tag = "block_id" -> "BlockId"
                  [] OTHER -> "none"
    IN  IF type = "none" THEN [kind |-> "ignore"]
        ELSE IF Len(parts.rest) = 0 THEN [kind |-> "panic"]
        ELSE IF ~from_str_ok(parts.rest[1], type) THEN [kind |-> "panic"]
        ELSE IF type = "BlockId"
        THEN [kind |-> "pull", msg |-> Line("block_id", parts.rest[1])]
        ELSE [kind |-> "forward", msg |-> msg]

\* ------------------------------------------------------------------------
\* The state machine: a BlockTree that is handed blocks
\* ------------------------------------------------------------------------

VARIABLES
    all_blocks,             \* BlockId -> BlockNode
    children_map,           \* BlockId -> list of BlockId
    block_depth,            \* BlockId -> depth
    root_id,
    working_block_id,
    orphans,                \* BlockId -> BlockNode
    finalized_block_id,
    finalized_balance_map,  \* UserId -> balance
    finalized_tx_ids,       \* set of TxId
    last_call,              \* the last add_block call: its argument and result
    last_query,             \* the query answered since the last add_block call
    pool_tx_ids,            \* list of TxId, in the order of insertion
    pool_tx_map,            \* TxId -> Transaction
    removed_tx_ids,         \* set of TxId
    last_finalized_block_id,
    last_pool_call,         \* the last call of the pool: its argument and result
    miner_args,             \* the arguments of the solve_puzzle call
    cancellation_token,     \* the shared flag
    cancel_requested,       \* the caller has set the flag
    is_running,             \* Miner.is_running
    worker_pc,              \* thread index -> position of the worker
    worker_rng,             \* thread index -> state of its generator
    channel,                \* the solutions sent and not yet received
    main_pc,                \* position of the coordinator
    received,               \* the solution the coordinator took
    joined,                 \* the number of workers joined
    solution,               \* what solve_puzzle returned
    net_pc,                 \* position of P2PNetwork::create
    net_i,                  \* the neighbor its loop is at
    senders,                \* the senders vector: whose writer each feeds
    listener,               \* position of the listener thread
    inbound_pc,             \* accepted connection -> position of its reader
    writer_pc,              \* neighbor -> position of its writer thread
    writer_chan,            \* neighbor -> lines queued for its writer
    wire,                   \* neighbor -> lines written to the neighbor
    reader_pc,              \* neighbor -> position of its reader thread
    reader_sender,          \* neighbor -> the writer its reader feeds
    block_in,               \* the channel behind block_receiver
    tx_in,                  \* the channel behind tx_receiver
    block_id_in,            \* the channel behind block_id_receiver
    pulls,                  \* block_id lines passed on, and to whom
    recv_msg_count,
    lines_left,             \* lines the peers may still send
    writes_left,            \* values the engine may still broadcast
    block_out_log,          \* the blocks the engine wrote to block_out
    tx_out_log,             \* the transactions the engine wrote to tx_out
    failed,                 \* neighbors whose connection failed or broke
    last_net,               \* the line a reader handled in the last step
    held,                   \* thread -> the mutexes it holds, oldest first
    poisoned,               \* the mutexes a thread panicked under
    puzzle_pc,              \* position of the thread that builds a puzzle
    publish_pc,             \* position of the main thread in publish_tx
    last_puzzle,            \* the last create_puzzle call and its outcome
    nakamoto_pc,            \* "none", or "created" once create_nakamoto returned
    tree_b,                 \* a second tree, handed the same blocks
    delivered,              \* the block_ids handed to the first tree so far
    delivered_b             \* the block_ids handed to the second tree so far

treeVars ==
    <<all_blocks, children_map, block_depth, root_id, working_block_id, orphans,
      finalized_block_id, finalized_balance_map, finalized_tx_ids>>

poolVars ==
    <<pool_tx_ids, pool_tx_map, removed_tx_ids, last_finalized_block_id>>

minerVars ==
    <<miner_args, cancellation_token, cancel_requested, is_running, worker_pc,
      worker_rng, channel, main_pc, received, joined, solution>>

createVars == <<net_pc, net_i, senders>>

listenVars == <<listener, inbound_pc>>

writerVars == <<writer_pc, writer_chan, wire>>

readerVars == <<reader_pc, reader_sender>>

queueVars == <<block_in, tx_in, block_id_in, pulls, recv_msg_count>>

engineVars == <<writes_left, block_out_log, tx_out_log>>

netVars ==
    <<createVars, listenVars, writerVars, readerVars, queueVars, engineVars,
      lines_left, failed, last_net>>

lockVars == <<held, poisoned>>

puzzleVars == <<lockVars, puzzle_pc, publish_pc, last_puzzle, nakamoto_pc>>

orderVars == <<tree_b, delivered, delivered_b>>

vars ==
    <<treeVars, last_call, last_query, poolVars, last_pool_call, minerVars,
      netVars, puzzleVars, orderVars>>

\* the BlockTree struct of the current state
BlockTree ==
    [all_blocks |-> all_blocks,
     children_map |-> children_map,
     block_depth |-> block_depth,
     root_id |-> root_id,
     working_block_id |-> working_block_id,
     orphans |-> orphans,
     finalized_block_id |-> finalized_block_id,
     finalized_balance_map |-> finalized_balance_map,
     finalized_tx_ids |-> finalized_tx_ids]

SetBlockTree(bt) ==
    /\ all_blocks' = bt.all_blocks
    /\ children_map' = bt.children_map
    /\ block_depth' = bt.block_depth
    /\ root_id' = bt.root_id
    /\ working_block_id' = bt.working_block_id
    /\ orphans' = bt.orphans
    /\ finalized_block_id' = bt.finalized_block_id
    /\ finalized_balance_map' = bt.finalized_balance_map
    /\ finalized_tx_ids' = bt.finalized_tx_ids

NoCall == [block |-> genesis_block, result |-> "none"]

NoQuery == [kind |-> "none", since |-> GENESIS_ID, result |-> Returned(<<>>)]

\* the TxPool struct of the current state
TxPool ==
    [pool_tx_ids |-> pool_tx_ids,
     pool_tx_map |-> pool_tx_map,
     last_finalized_block_id |-> last_finalized_block_id,
     removed_tx_ids |-> removed_tx_ids]

SetTxPool(pool) ==
    /\ pool_tx_ids' = pool.pool_tx_ids
    /\ pool_tx_map' = pool.pool_tx_map
    /\ last_finalized_block_id' = pool.last_finalized_block_id
    /\ removed_tx_ids' = pool.removed_tx_ids

NoPoolCall ==
    [op |-> "none", tx |-> tx_ab, blocks |-> <<>>, max_count |-> 0,
     excluding |-> <<>>, result |-> "none", value |-> <<>>]

\* no solve_puzzle call yet
NoArgs ==
    [puzzle |-> <<>>, nonce_len |-> 0, leading_zero_len |-> 0,
     thread_count |-> 0, thread_0_seed |-> 0]

NoSolution == [some |-> FALSE, value |-> PuzzleSolution(<<>>, <<>>, <<>>)]

Some(value) == [some |-> TRUE, value |-> value]

\* no line handled
NoNetLine == [thread |-> "none", conn |-> 0, msg |-> Line("", NoJson)]

\* no create_puzzle call yet; value is read after a call that returned only
NoPuzzle ==
    [called |-> FALSE, tx_count |-> 0, outcome |-> "panic",
     value |-> [puzzle |-> [parent |-> GENESIS_ID,
                            merkle_root |-> genesis_block.header.merkle_root,
                            reward_receiver |-> MINER],
                pre_block |-> genesis_block]]

Init ==
    /\ all_blocks = NewBlockTree.all_blocks
    /\ children_map = NewBlockTree.children_map
    /\ block_depth = NewBlockTree.block_depth
    /\ root_id = NewBlockTree.root_id
    /\ working_block_id = NewBlockTree.working_block_id
    /\ orphans = NewBlockTree.orphans
    /\ finalized_block_id = NewBlockTree.finalized_block_id
    /\ finalized_balance_map = NewBlockTree.finalized_balance_map
    /\ finalized_tx_ids = NewBlockTree.finalized_tx_ids
    /\ last_call = NoCall
    /\ last_query = NoQuery
    /\ pool_tx_ids = NewTxPool.pool_tx_ids
    /\ pool_tx_map = NewTxPool.pool_tx_map
    /\ removed_tx_ids = NewTxPool.removed_tx_ids
    /\ last_finalized_block_id = NewTxPool.last_finalized_block_id
    /\ last_pool_call = NoPoolCall
    /\ miner_args = NoArgs
    /\ cancellation_token = FALSE
    /\ cancel_requested = FALSE
    /\ is_running = FALSE
    /\ worker_pc = [i \in {} |-> "loop"]
    /\ worker_rng = [i \in {} |-> 0]
    /\ channel = <<>>
    /\ main_pc = "idle"
    /\ received = NoSolution
    /\ joined = 0
    /\ solution = NoSolution
    /\ net_pc = "idle"
    /\ net_i = 1
    /\ senders = <<>>
    /\ listener = "none"
    /\ inbound_pc = [c \in Inbound |-> "none"]
    /\ writer_pc = [n \in Neighbors |-> "none"]
    /\ writer_chan = [n \in Neighbors |-> <<>>]
    /\ wire = [n \in Neighbors |-> <<>>]
    /\ reader_pc = [n \in Neighbors |-> "none"]
    /\ reader_sender = [n \in Neighbors |-> 0]
    /\ block_in = <<>>
    /\ tx_in = <<>>
    /\ block_id_in = <<>>
    /\ pulls = {}
    /\ recv_msg_count = 0
    /\ lines_left = MaxLines
    /\ writes_left = MaxWrites
    /\ block_out_log = {}
    /\ tx_out_log = {}
    /\ failed = {}
    /\ last_net = NoNetLine
    /\ held = [thread \in {"main", "puzzle"} |-> <<>>]
    /\ poisoned = {}
    /\ puzzle_pc = "idle"
    /\ publish_pc = "idle"
    /\ last_puzzle = NoPuzzle
    /\ nakamoto_pc = "none"
    /\ tree_b = NewBlockTree
    /\ delivered = {}
    /\ delivered_b = {}

\* a call bt.add_block(block, LEADING_ZERO_LEN)
CallAddBlock(block) ==
    \E out \in add_block(BlockTree, block, LEADING_ZERO_LEN) :
        /\ SetBlockTree(out.bt)
        /\ last_call' = [block |-> block, result |-> out.result]
        /\ last_query' = NoQuery
        /\ UNCHANGED <<poolVars, last_pool_call, minerVars, netVars,
                   puzzleVars, orderVars>>

\* the node is handed a block of the universe
AddBlock == \E block \in BlockUniverse : CallAddBlock(block)

Next == AddBlock

Spec == Init /\ [][Next]_vars

\* the blocks handed to a tree that is queried: the start of the main chain
\* and the fork F1 <- F4
QueryUniverse == {KBlock(i) : i \in 1..QueryChainLen} \cup {F1, F4}

\* the ids the queries are asked about: genesis, every block of the universe
\* (admitted, parked or not yet seen) and the id of a block never admitted
QueryIds ==
    {GENESIS_ID, X2.header.block_id}
        \cup {block.header.block_id : block \in QueryUniverse}

AddQueryBlock == \E block \in QueryUniverse : CallAddBlock(block)

\* a call bt.get_finalized_blocks_since(since_block_id)
GetFinalizedBlocksSince ==
    \E since_block_id \in QueryIds :
        /\ last_query' =
              [kind |-> "since", since |-> since_block_id,
               result |-> get_finalized_blocks_since(BlockTree, since_block_id)]
        /\ UNCHANGED <<treeVars, last_call, poolVars, last_pool_call, minerVars,
                   netVars, puzzleVars, orderVars>>

\* a call bt.get_pending_finalization_txs()
GetPendingFinalizationTxs ==
    /\ last_query' =
          [kind |-> "pending", since |-> GENESIS_ID,
           result |-> get_pending_finalization_txs(BlockTree)]
    /\ UNCHANGED <<treeVars, last_call, poolVars, last_pool_call, minerVars,
                   netVars, puzzleVars, orderVars>>

NextQueries ==
    \/ AddQueryBlock
    \/ GetFinalizedBlocksSince
    \/ GetPendingFinalizationTxs

\* a tree that is handed blocks and queried in between
SpecQueries == Init /\ [][NextQueries]_vars

\* the transaction of the genesis block: its sender and signature are the
\* text "GENESIS"
tx_genesis == genesis_block.transactions_block.transactions[1]

\* the transactions handed to the pool: four with a signature that verifies,
\* one more than the pool holds, a forged one and the genesis transaction
PoolTxs == {tx_ab, tx_bc, tx_bc2, tx_ac, tx_forged, tx_genesis}

\* a call pool.add_tx(tx)
AddTx ==
    \E tx \in PoolTxs :
        LET out == add_tx(TxPool, tx)
        IN  /\ SetTxPool(out.pool)
            /\ last_pool_call' =
                  [NoPoolCall EXCEPT !.op = "add_tx", !.tx = tx,
                                     !.result = out.result]
            /\ UNCHANGED <<treeVars, last_call, last_query, minerVars,
                         netVars, puzzleVars, orderVars>>

\* a call pool.del_tx(tx_id), for the TxId of a transaction in the pool or not
DelTx ==
    \E tx \in PoolTxs :
        /\ SetTxPool(del_tx(TxPool, gen_hash(tx)))
        /\ last_pool_call' =
              [NoPoolCall EXCEPT !.op = "del_tx", !.tx = tx, !.result = "unit"]
        /\ UNCHANGED <<treeVars, last_call, last_query, minerVars,
                         netVars, puzzleVars, orderVars>>

\* the lists of transactions handed to filter_tx as excluding_txs
ExcludingLists == {<<>>, <<tx_ab>>, <<tx_bc, tx_ac>>}

\* a call pool.filter_tx(max_count, excluding_txs)
FilterTx ==
    \E max_count \in 0..MaxCount, excluding_txs \in ExcludingLists :
        /\ last_pool_call' =
              [NoPoolCall EXCEPT
                  !.op = "filter_tx", !.max_count = max_count,
                  !.excluding = excluding_txs, !.result = "return",
                  !.value = filter_tx(TxPool, max_count, excluding_txs)]
        /\ UNCHANGED <<poolVars, treeVars, last_call, last_query,
                       minerVars, netVars, puzzleVars, orderVars>>

\* the blocks handed to the pool as finalized: K(1) carries tx_ab, F1 tx_ac,
\* F3 tx_bc and tx_bc2
PoolBlocks == {KBlock(1), F1, F3}

\* the lists of finalized blocks handed to the pool: of no, one or two blocks
FinalizedLists ==
    {<<>>} \cup {<<a>> : a \in PoolBlocks}
           \cup {<<a, b>> : a \in PoolBlocks, b \in PoolBlocks}

\* a call pool.remove_txs_from_finalized_blocks(finalized_blocks)
RemoveTxsFromFinalizedBlocks ==
    \E finalized_blocks \in FinalizedLists :
        LET out == remove_txs_from_finalized_blocks(TxPool, finalized_blocks)
        IN  /\ SetTxPool(out.pool)
            /\ last_pool_call' =
                  [NoPoolCall EXCEPT
                      !.op = "remove_txs_from_finalized_blocks",
                      !.blocks = finalized_blocks, !.result = out.result]
            /\ UNCHANGED <<treeVars, last_call, last_query, minerVars,
                         netVars, puzzleVars, orderVars>>

NextPool ==
    \/ AddTx
    \/ DelTx
    \/ FilterTx
    \/ RemoveTxsFromFinalizedBlocks

\* a pool that is handed transactions
SpecPool == Init /\ [][NextPool]_vars

\* the node is handed a block of the chain of empty blocks
AddEmptyBlock == \E block \in EmptyChain : CallAddBlock(block)

NextEmptyChain == AddEmptyBlock

\* a tree that is handed the blocks of the empty chain, in any order
SpecEmptyChain == Init /\ [][NextEmptyChain]_vars

\* ------------------------------------------------------------------------
\* The state machine of Miner::solve_puzzle: a coordinator and its workers
\* ------------------------------------------------------------------------

chainVars == <<treeVars, last_call, last_query, poolVars, last_pool_call>>

Workers == DOMAIN worker_pc

Terminated(i) == worker_pc[i] \in {"done", "panicked"}

\* the call: the channel is created and thread_count workers are spawned,
\* worker i with a generator seeded with thread_0_seed + i.  The caller hands
\* over a token that is not set, or one that is set already
SolvePuzzle ==
    /\ main_pc = "idle"
    /\ \E puzzle \in MinerPuzzles, nonce_len \in 0..MaxNonceLen,
          leading_zero_len \in 0..MaxDifficulty,
          thread_count \in 0..MaxThreadCount, thread_0_seed \in 0..MaxSeed,
          token \in BOOLEAN :
            /\ miner_args' =
                  [puzzle |-> puzzle, nonce_len |-> nonce_len,
                   leading_zero_len |-> leading_zero_len,
                   thread_count |-> thread_count,
                   thread_0_seed |-> thread_0_seed]
            /\ cancellation_token' = token
            /\ cancel_requested' = token
            /\ worker_pc' = [i \in 0..(thread_count - 1) |-> "loop"]
            /\ worker_rng' =
                  [i \in 0..(thread_count - 1) |->
                      seed_from_u64(thread_seed(thread_0_seed, i))]
    /\ channel' = <<>>
    /\ main_pc' = "check"
    /\ UNCHANGED <<chainVars, netVars, puzzleVars, orderVars, is_running, received, joined, solution>>

\* the caller sets the token from another thread
Cancel ==
    /\ main_pc # "idle"
    /\ ~cancellation_token
    /\ cancellation_token' = TRUE
    /\ cancel_requested' = TRUE
    /\ UNCHANGED <<chainVars, netVars, puzzleVars, orderVars, miner_args, is_running, worker_pc,
                   worker_rng,
                   channel, main_pc, received, joined, solution>>

\* a worker at the top of its loop reads the token
WorkerCheck(i) ==
    /\ worker_pc[i] = "loop"
    /\ worker_pc' =
          [worker_pc EXCEPT ![i] = IF cancellation_token THEN "done"
                                   ELSE "search"]
    /\ UNCHANGED <<chainVars, netVars, puzzleVars, orderVars, miner_args, cancellation_token,
                   cancel_requested,
                   is_running, worker_rng, channel, main_pc, received, joined,
                   solution>>

\* a worker draws a nonce, hashes, and sends the solution if it is one; the
\* send fails, and unwrap panics, once the coordinator has returned and the
\* receiver is dropped
WorkerSearch(i) ==
    /\ worker_pc[i] = "search"
    /\ LET out == search(worker_rng[i], miner_args.puzzle,
                         miner_args.nonce_len, miner_args.leading_zero_len)
       IN  /\ worker_rng' = [worker_rng EXCEPT ![i] = out.rng]
           /\ IF ~out.found
              THEN /\ worker_pc' = [worker_pc EXCEPT ![i] = "loop"]
                   /\ UNCHANGED channel
              ELSE IF main_pc \in {"returned", "panicked"}
              THEN /\ worker_pc' = [worker_pc EXCEPT ![i] = "panicked"]
                   /\ UNCHANGED channel
              ELSE /\ worker_pc' = [worker_pc EXCEPT ![i] = "done"]
                   /\ channel' = Append(channel, out.solution)
    /\ UNCHANGED <<chainVars, netVars, puzzleVars, orderVars, miner_args, cancellation_token,
                   cancel_requested,
                   is_running, main_pc, received, joined, solution>>

\* the coordinator at the top of its loop reads the token and returns None
\* when it is set
MainCheck ==
    /\ main_pc = "check"
    /\ IF cancellation_token
       THEN /\ main_pc' = "returned"
            /\ solution' = NoSolution
       ELSE /\ main_pc' = "try_recv"
            /\ UNCHANGED solution
    /\ UNCHANGED <<chainVars, netVars, puzzleVars, orderVars, miner_args, cancellation_token,
                   cancel_requested,
                   is_running, worker_pc, worker_rng, channel, received,
                   joined>>

\* receiver.try_recv(): a solution is taken, or the channel is empty and the
\* coordinator sleeps and loops.  The coordinator holds a sender itself, so
\* the channel is never disconnected
MainTryRecv ==
    /\ main_pc = "try_recv"
    /\ IF channel # <<>>
       THEN /\ received' = Some(Head(channel))
            /\ channel' = Tail(channel)
            /\ main_pc' = "cancel"
       ELSE /\ main_pc' = "check"
            /\ UNCHANGED <<received, channel>>
    /\ UNCHANGED <<chainVars, netVars, puzzleVars, orderVars, miner_args, cancellation_token,
                   cancel_requested,
                   is_running, worker_pc, worker_rng, joined, solution>>

\* with a solution in hand: is_running = false and the token is set
MainCancel ==
    /\ main_pc = "cancel"
    /\ is_running' = FALSE
    /\ cancellation_token' = TRUE
    /\ joined' = 0
    /\ main_pc' = "join"
    /\ UNCHANGED <<chainVars, netVars, puzzleVars, orderVars, miner_args, cancel_requested,
                   worker_pc,
                   worker_rng, channel, received, solution>>

\* thread.join().unwrap() on the next worker: it waits for the worker to end
\* and panics if the worker panicked
MainJoin ==
    /\ main_pc = "join"
    /\ joined < miner_args.thread_count
    /\ Terminated(joined)
    /\ IF worker_pc[joined] = "panicked"
       THEN /\ main_pc' = "panicked"
            /\ UNCHANGED joined
       ELSE /\ joined' = joined + 1
            /\ UNCHANGED main_pc
    /\ UNCHANGED <<chainVars, netVars, puzzleVars, orderVars, miner_args, cancellation_token,
                   cancel_requested,
                   is_running, worker_pc, worker_rng, channel, received,
                   solution>>

\* break Some(solution) after the last join
MainReturn ==
    /\ main_pc = "join"
    /\ joined = miner_args.thread_count
    /\ solution' = received
    /\ main_pc' = "returned"
    /\ UNCHANGED <<chainVars, netVars, puzzleVars, orderVars, miner_args, cancellation_token,
                   cancel_requested,
                   is_running, worker_pc, worker_rng, channel, received,
                   joined>>

WorkerStep(i) == WorkerCheck(i) \/ WorkerSearch(i)

MainStep == MainCheck \/ MainTryRecv \/ MainCancel \/ MainJoin \/ MainReturn

NextMiner ==
    \/ SolvePuzzle
    \/ Cancel
    \/ \E i \in Workers : WorkerCheck(i)
    \/ \E i \in Workers : WorkerSearch(i)
    \/ MainCheck
    \/ MainTryRecv
    \/ MainCancel
    \/ MainJoin
    \/ MainReturn

\* one call of solve_puzzle, its workers, and a caller that may cancel
SpecMiner == Init /\ [][NextMiner]_vars

\* the same under a scheduler that lets every thread that can run take its
\* next step eventually; whether the caller cancels is up to the caller
SpecMinerFair ==
    /\ SpecMiner
    /\ WF_vars(MainStep)
    /\ \A i \in 0..(MaxThreadCount - 1) :
          WF_vars(i \in Workers /\ WorkerStep(i))

\* ------------------------------------------------------------------------
\* The state machine of P2PNetwork::create and the threads it spawns
\* ------------------------------------------------------------------------

nodeVars == <<chainVars, minerVars, puzzleVars, orderVars>>

\* the lines the peers send: a block and a transaction as serde_json writes
\* them, a block written as an array, a block_id, a line with an unknown tag,
\* a line "block" without a ':' and a transaction whose JSON text is cut
\* short before its first ':' ("broken")
NetLines ==
    {Line("block", Json("object", "BlockNode", KBlock(1))),
     Line("block", Json("array", "BlockNode", KBlock(1))),
     Line("tx", Json("object", "Transaction", tx_ab)),
     Line("block_id", Json("string", "BlockId", [block_id |-> KId(1)])),
     Line("hello", NoJson),
     Line("block", NoJson),
     Line("tx", Json("broken", "Transaction", tx_ab))}

\* the blocks and transactions the engine broadcasts
OutBlocks == {F1}

OutTxs == {tx_ac}

\* a reader thread that still holds its sender
ReaderAlive(n) == reader_pc[n] \in {"connecting", "reading", "spinning"}

\* every sender of the channel of writer w is dropped
Disconnected(w) ==
    /\ \A k \in 1..Len(senders) : senders[k] # w
    /\ \A n \in Neighbors : ReaderAlive(n) => reader_sender[n] # w

\* create starts: the struct, the three channels, and the listener thread
P2PCreate ==
    /\ net_pc = "idle"
    /\ net_pc' = "connect"
    /\ listener' = "binding"
    /\ last_net' = NoNetLine
    /\ UNCHANGED <<nodeVars, net_i, senders, inbound_pc, writerVars,
                   readerVars, queueVars, engineVars, lines_left, failed>>

\* TcpListener::bind(..).expect(..): the listener thread panics if it fails
ListenerBind ==
    /\ listener = "binding"
    /\ \E ok \in BOOLEAN :
          listener' = IF ok THEN "listening" ELSE "panicked"
    /\ last_net' = NoNetLine
    /\ UNCHANGED <<nodeVars, createVars, inbound_pc, writerVars, readerVars,
                   queueVars, engineVars, lines_left, failed>>

\* the listener accepts a connection and spawns its reader
Accept(c) ==
    /\ listener = "listening"
    /\ inbound_pc[c] = "none"
    /\ inbound_pc' = [inbound_pc EXCEPT ![c] = "reading"]
    /\ last_net' = NoNetLine
    /\ UNCHANGED <<nodeVars, createVars, listener, writerVars, readerVars,
                   queueVars, engineVars, lines_left, failed>>

\* the reader of an accepted connection reads a line and handles it.  A send
\* fails, and its unwrap panics, when the receiver is dropped: block_receiver
\* and tx_receiver if create panicked, block_id_receiver once create is over
InboundLine(c) ==
    /\ inbound_pc[c] = "reading"
    /\ lines_left > 0
    /\ lines_left' = lines_left - 1
    /\ \E msg \in NetLines :
          LET out == inbound_handle(msg)
              dropped == IF out.kind # "send" THEN FALSE
                         ELSE IF out.type = "BlockId"
                         THEN net_pc \in {"returned", "panicked"}
                         ELSE net_pc = "panicked" \/ nakamoto_pc = "created"
          IN  /\ last_net' = [thread |-> "inbound", conn |-> c, msg |-> msg]
              /\ inbound_pc' =
                    [inbound_pc EXCEPT ![c] =
                        IF out.kind = "panic" \/ dropped THEN "panicked"
                        ELSE "reading"]
              /\ block_in' =
                    IF out.kind = "send" /\ ~dropped /\ out.type = "BlockNode"
                    THEN Append(block_in, out.value) ELSE block_in
              /\ tx_in' =
                    IF out.kind = "send" /\ ~dropped
                        /\ out.type = "Transaction"
                    THEN Append(tx_in, out.value) ELSE tx_in
              /\ block_id_in' =
                    IF out.kind = "send" /\ ~dropped /\ out.type = "BlockId"
                    THEN Append(block_id_in, out.value) ELSE block_id_in
    /\ UNCHANGED <<nodeVars, createVars, listener, writerVars, readerVars,
                   pulls, recv_msg_count, engineVars, failed>>

\* an accepted connection ends: at end of file read_line returns Ok(0) and
\* the reader loops on empty lines for ever; on an error it breaks
InboundEnd(c) ==
    /\ inbound_pc[c] = "reading"
    /\ \E how \in {"spinning", "stopped"} :
          inbound_pc' = [inbound_pc EXCEPT ![c] = how]
    /\ last_net' = NoNetLine
    /\ UNCHANGED <<nodeVars, createVars, listener, writerVars, readerVars,
                   queueVars, engineVars, lines_left, failed>>

\* step 4, for the next neighbor: TcpStream::connect; if it succeeds a
\* channel is made, its sender pushed, and the writer thread spawned
Connect ==
    /\ net_pc = "connect"
    /\ \E ok \in BOOLEAN :
          IF ok
          THEN /\ senders' = Append(senders, net_i)
               /\ writer_pc' = [writer_pc EXCEPT ![net_i] = "running"]
               /\ UNCHANGED failed
          ELSE /\ failed' = failed \cup {net_i}
               /\ UNCHANGED <<senders, writer_pc>>
    /\ IF net_i = NumNeighbors
       THEN net_pc' = "spawn" /\ net_i' = 1
       ELSE net_pc' = net_pc /\ net_i' = net_i + 1
    /\ last_net' = NoNetLine
    /\ UNCHANGED <<nodeVars, listenVars, writer_chan, wire, readerVars,
                   queueVars, engineVars, lines_left>>

\* steps 5 to 7, for the next neighbor: senders.pop().unwrap(), which panics
\* on an empty vector, and the reader thread spawned with that sender
SpawnReader ==
    /\ net_pc = "spawn"
    /\ net_i <= NumNeighbors
    /\ IF senders = <<>>
       THEN /\ net_pc' = "panicked"
            /\ UNCHANGED <<net_i, senders, readerVars>>
       ELSE /\ reader_sender' =
                  [reader_sender EXCEPT ![net_i] = senders[Len(senders)]]
            /\ senders' = SubSeq(senders, 1, Len(senders) - 1)
            /\ reader_pc' = [reader_pc EXCEPT ![net_i] = "connecting"]
            /\ net_i' = net_i + 1
            /\ UNCHANGED net_pc
    /\ last_net' = NoNetLine
    /\ UNCHANGED <<nodeVars, listenVars, writerVars, queueVars, engineVars,
                   lines_left, failed>>

\* step 8: create returns the handle and the five channel ends
CreateReturn ==
    /\ net_pc = "spawn"
    /\ net_i > NumNeighbors
    /\ net_pc' = "returned"
    /\ last_net' = NoNetLine
    /\ UNCHANGED <<nodeVars, net_i, senders, listenVars, writerVars,
                   readerVars, queueVars, engineVars, lines_left, failed>>

\* the reader thread of a neighbor opens its own connection to the neighbor
ReaderConnect(n) ==
    /\ reader_pc[n] = "connecting"
    /\ \E ok \in BOOLEAN :
          IF ok
          THEN /\ reader_pc' = [reader_pc EXCEPT ![n] = "reading"]
               /\ UNCHANGED failed
          ELSE /\ reader_pc' = [reader_pc EXCEPT ![n] = "stopped"]
               /\ failed' = failed \cup {n}
    /\ last_net' = NoNetLine
    /\ UNCHANGED <<nodeVars, createVars, listenVars, writerVars,
                   reader_sender, queueVars, engineVars, lines_left>>

\* the reader of a neighbor reads a line and handles it: a block or a
\* transaction is counted and the line sent to the writer its sender feeds
\* (the send panics if that writer is gone); a block_id is written to a new
\* connection to a random neighbor, and a failure of that write panics
OutboundLine(n) ==
    /\ reader_pc[n] = "reading"
    /\ lines_left > 0
    /\ lines_left' = lines_left - 1
    /\ \E msg \in NetLines :
          LET out == outbound_handle(msg)
              w == reader_sender[n]
          IN  /\ last_net' = [thread |-> "outbound", conn |-> n, msg |-> msg]
              /\ CASE out.kind = "ignore" ->
                        UNCHANGED <<reader_pc, writer_chan, pulls,
                                    recv_msg_count, failed>>
                   [] out.kind = "panic" ->
                        /\ reader_pc' = [reader_pc EXCEPT ![n] = "panicked"]
                        /\ UNCHANGED <<writer_chan, pulls, recv_msg_count,
                                       failed>>
                   [] out.kind = "forward" ->
                        /\ recv_msg_count' = recv_msg_count + 1
                        /\ IF writer_pc[w] = "running"
                           THEN /\ writer_chan' =
                                      [writer_chan EXCEPT
                                          ![w] = Append(@, out.msg)]
                                /\ UNCHANGED reader_pc
                           ELSE /\ reader_pc' =
                                      [reader_pc EXCEPT ![n] = "panicked"]
                                /\ UNCHANGED writer_chan
                        /\ UNCHANGED <<pulls, failed>>
                   [] out.kind = "pull" ->
                        /\ \E random_neighbor \in Neighbors,
                              how \in {"sent", "refused", "panic"} :
                                /\ pulls' =
                                      IF how = "sent"
                                      THEN pulls \cup
                                             {[to |-> random_neighbor,
                                               msg |-> out.msg]}
                                      ELSE pulls
                                /\ reader_pc' =
                                      IF how = "panic"
                                      THEN [reader_pc EXCEPT
                                               ![n] = "panicked"]
                                      ELSE reader_pc
                                /\ failed' =
                                      IF how = "sent" THEN failed
                                      ELSE failed \cup {random_neighbor}
                        /\ UNCHANGED <<writer_chan, recv_msg_count>>
    /\ UNCHANGED <<nodeVars, createVars, listenVars, writer_pc, wire,
                   reader_sender, block_in, tx_in, block_id_in, engineVars>>

\* the connection a reader opened ends: at end of file the reader loops on
\* empty lines for ever; on an error it breaks
OutboundEnd(n) ==
    /\ reader_pc[n] = "reading"
    /\ \E how \in {"spinning", "stopped"} :
          reader_pc' = [reader_pc EXCEPT ![n] = how]
    /\ failed' = failed \cup {n}
    /\ last_net' = NoNetLine
    /\ UNCHANGED <<nodeVars, createVars, listenVars, writerVars,
                   reader_sender, queueVars, engineVars, lines_left>>

\* a writer thread takes a line from its channel and writes it to its
\* neighbor; if the write or the flush fails it breaks
WriterSend(w) ==
    /\ writer_pc[w] = "running"
    /\ writer_chan[w] # <<>>
    /\ writer_chan' = [writer_chan EXCEPT ![w] = Tail(@)]
    /\ \E ok \in BOOLEAN :
          IF ok
          THEN /\ wire' = [wire EXCEPT ![w] = Append(@, Head(writer_chan[w]))]
               /\ UNCHANGED <<writer_pc, failed>>
          ELSE /\ writer_pc' = [writer_pc EXCEPT ![w] = "stopped"]
               /\ failed' = failed \cup {w}
               /\ UNCHANGED wire
    /\ last_net' = NoNetLine
    /\ UNCHANGED <<nodeVars, createVars, listenVars, readerVars, queueVars,
                   engineVars, lines_left>>

\* receiver.recv() fails once the channel is empty and every sender is
\* dropped, and the writer breaks
WriterDisconnected(w) ==
    /\ writer_pc[w] = "running"
    /\ writer_chan[w] = <<>>
    /\ Disconnected(w)
    /\ writer_pc' = [writer_pc EXCEPT ![w] = "stopped"]
    /\ last_net' = NoNetLine
    /\ UNCHANGED <<nodeVars, createVars, listenVars, writer_chan, wire,
                   readerVars, queueVars, engineVars, lines_left, failed>>

\* the engine writes a block to block_out: the sender create returned as
\* block_out is block_sender, the sending end of the channel behind
\* block_receiver
EngineWriteBlock ==
    /\ net_pc = "returned"
    /\ writes_left > 0
    /\ writes_left' = writes_left - 1
    /\ \E block \in OutBlocks :
          /\ block_in' = Append(block_in, block)
          /\ block_out_log' = block_out_log \cup {block}
    /\ last_net' = NoNetLine
    /\ UNCHANGED <<nodeVars, createVars, listenVars, writerVars, readerVars,
                   tx_in, block_id_in, pulls, recv_msg_count, tx_out_log,
                   lines_left, failed>>

\* the engine writes a transaction to tx_out, the sending end of the channel
\* behind tx_receiver
EngineWriteTx ==
    /\ net_pc = "returned"
    /\ writes_left > 0
    /\ writes_left' = writes_left - 1
    /\ \E tx \in OutTxs :
          /\ tx_in' = Append(tx_in, tx)
          /\ tx_out_log' = tx_out_log \cup {tx}
    /\ last_net' = NoNetLine
    /\ UNCHANGED <<nodeVars, createVars, listenVars, writerVars, readerVars,
                   block_in, block_id_in, pulls, recv_msg_count,
                   block_out_log, lines_left, failed>>

CreateStep == P2PCreate \/ Connect \/ SpawnReader \/ CreateReturn

ThreadStep ==
    \/ ListenerBind
    \/ \E n \in Neighbors : ReaderConnect(n)
    \/ \E w \in Neighbors : WriterSend(w)
    \/ \E w \in Neighbors : WriterDisconnected(w)

NextNetwork ==
    \/ P2PCreate
    \/ ListenerBind
    \/ \E c \in Inbound : Accept(c)
    \/ \E c \in Inbound : InboundLine(c)
    \/ \E c \in Inbound : InboundEnd(c)
    \/ Connect
    \/ SpawnReader
    \/ CreateReturn
    \/ \E n \in Neighbors : ReaderConnect(n)
    \/ \E n \in Neighbors : OutboundLine(n)
    \/ \E n \in Neighbors : OutboundEnd(n)
    \/ \E w \in Neighbors : WriterSend(w)
    \/ \E w \in Neighbors : WriterDisconnected(w)
    \/ EngineWriteBlock
    \/ EngineWriteTx

\* a node that creates its network, its peers and its engine
SpecNetwork == Init /\ [][NextNetwork]_vars

\* the same under a scheduler that lets create and every thread of the node
\* that can take a step take it eventually; what the peers and the engine do
\* is up to them
SpecNetworkFair ==
    /\ SpecNetwork
    /\ WF_vars(CreateStep)
    /\ WF_vars(ThreadStep)

\* ------------------------------------------------------------------------
\* The node that create_nakamoto builds (bin_nakamoto/src/nakamoto.rs)
\* ------------------------------------------------------------------------

\* create_nakamoto returns, lines 164 to 175: it has started no thread, and of
\* the tuple P2PNetwork::create returned it keeps the network and tx_sender;
\* block_receiver and tx_receiver are dropped with what they hold, and with
\* them block_sender and block_id_sender
NakamotoReturn ==
    /\ net_pc = "returned"
    /\ nakamoto_pc = "none"
    /\ nakamoto_pc' = "created"
    /\ block_in' = <<>>
    /\ tx_in' = <<>>
    /\ last_net' = NoNetLine
    /\ UNCHANGED <<chainVars, minerVars, orderVars, lockVars, puzzle_pc,
                   publish_pc, last_puzzle, createVars, listenVars,
                   writerVars, readerVars, block_id_in, pulls,
                   recv_msg_count, engineVars, lines_left, failed>>

NextNode ==
    \/ P2PCreate
    \/ ListenerBind
    \/ \E c \in Inbound : Accept(c)
    \/ \E c \in Inbound : InboundLine(c)
    \/ \E c \in Inbound : InboundEnd(c)
    \/ Connect
    \/ SpawnReader
    \/ CreateReturn
    \/ \E n \in Neighbors : ReaderConnect(n)
    \/ \E n \in Neighbors : OutboundLine(n)
    \/ \E n \in Neighbors : OutboundEnd(n)
    \/ \E w \in Neighbors : WriterSend(w)
    \/ \E w \in Neighbors : WriterDisconnected(w)
    \/ NakamotoReturn

\* the node as create_nakamoto leaves it, and its peers
SpecNode == Init /\ [][NextNode]_vars

\* the same under a scheduler that lets create_nakamoto and every thread of
\* the node that can take a step take it eventually
SpecNodeFair ==
    /\ SpecNode
    /\ WF_vars(CreateStep)
    /\ WF_vars(ThreadStep)
    /\ WF_vars(NakamotoReturn)

\* ------------------------------------------------------------------------
\* The node's two mutexes, create_puzzle and publish_tx
\* (bin_nakamoto/src/nakamoto.rs)
\* ------------------------------------------------------------------------

Threads == {"main", "puzzle"}

Holds(thread, lock) ==
    \E i \in 1..Len(held[thread]) : held[thread][i] = lock

\* Mutex::lock blocks while another thread holds the mutex
Free(lock) == \A thread \in Threads : ~Holds(thread, lock)

\* a thread that panics drops its guards, and each of them poisons its mutex
PanicOf(thread) ==
    /\ poisoned' = poisoned \cup {held[thread][i] : i \in 1..Len(held[thread])}
    /\ held' = [held EXCEPT ![thread] = <<>>]

\* lock().unwrap() that records the new guard as the oldest one
lock_unwrap_oldest(thread, lock) ==
    /\ Free(lock)
    /\ IF lock \in poisoned
       THEN PanicOf(thread)
       ELSE /\ held' = [held EXCEPT ![thread] = <<lock>> \o @]
            /\ UNCHANGED poisoned

\* lock().unwrap(): the guard, or a panic when the mutex is poisoned
LockUnwrap(thread, lock) ==
    /\ Free(lock)
    /\ IF lock \in poisoned
       THEN PanicOf(thread)
       ELSE /\ held' = [held EXCEPT ![thread] = Append(@, lock)]
            /\ UNCHANGED poisoned

\* the transactions a client publishes
PublishTxs == {tx_ab, tx_bc, tx_ac, tx_forged}

\* the blocks of the chain the node holds
NodeBlocks == {KBlock(1), KBlock(2), F1}

\* the chain the node holds grows by a block while no thread holds the tree
ChainGrows ==
    /\ Free("BlockTree")
    /\ \E block \in NodeBlocks : CallAddBlock(block)

\* create_puzzle, line 61: chain_p.lock().unwrap()
PuzzleLockChain ==
    /\ puzzle_pc = "idle"
    /\ LockUnwrap("puzzle", "BlockTree")
    /\ puzzle_pc' = IF "BlockTree" \in poisoned THEN "panicked"
                    ELSE "chain_locked"
    /\ UNCHANGED <<chainVars, minerVars, netVars, orderVars, publish_pc, last_puzzle,
                   nakamoto_pc>>

\* create_puzzle, line 62: tx_pool_p.lock().unwrap()
PuzzleLockPool ==
    /\ puzzle_pc = "chain_locked"
    /\ LockUnwrap("puzzle", "TxPool")
    /\ puzzle_pc' = IF "TxPool" \in poisoned THEN "panicked"
                    ELSE "both_locked"
    /\ UNCHANGED <<chainVars, minerVars, netVars, orderVars, publish_pc, last_puzzle,
                   nakamoto_pc>>

\* create_puzzle, lines 64 to 107, under both guards, which are dropped on
\* return and on a panic
PuzzleBuild ==
    /\ puzzle_pc = "both_locked"
    /\ \E tx_count \in 0..MaxTxCount :
          LET out == create_puzzle(BlockTree, TxPool, tx_count, MINER)
          IN  /\ last_puzzle' =
                    [called |-> TRUE, tx_count |-> tx_count,
                     outcome |-> out.outcome,
                     value |-> IF out.outcome = "return" THEN out.value
                               ELSE NoPuzzle.value]
              /\ IF out.outcome = "return"
                 THEN /\ held' = [held EXCEPT !["puzzle"] = <<>>]
                      /\ UNCHANGED poisoned
                      /\ puzzle_pc' = "idle"
                 ELSE /\ PanicOf("puzzle")
                      /\ puzzle_pc' = "panicked"
    /\ UNCHANGED <<chainVars, minerVars, netVars, orderVars, publish_pc,
                   nakamoto_pc>>

\* publish_tx, line 203: self.tx_pool_p.lock().unwrap()
PublishLock ==
    /\ publish_pc = "idle"
    /\ LockUnwrap("main", "TxPool")
    /\ publish_pc' = IF "TxPool" \in poisoned THEN "panicked" ELSE "locked"
    /\ UNCHANGED <<chainVars, minerVars, netVars, orderVars, puzzle_pc, last_puzzle,
                   nakamoto_pc>>

\* publish_tx, line 204: tx_pool.add_tx(transaction), and the guard is dropped
PublishAddTx ==
    /\ publish_pc = "locked"
    /\ \E tx \in PublishTxs :
          LET out == add_tx(TxPool, tx)
          IN  /\ SetTxPool(out.pool)
              /\ last_pool_call' =
                    [NoPoolCall EXCEPT !.op = "add_tx", !.tx = tx,
                                       !.result = out.result]
              /\ IF out.result = "panic"
                 THEN /\ PanicOf("main")
                      /\ publish_pc' = "panicked"
                 ELSE /\ held' = [held EXCEPT !["main"] = <<>>]
                      /\ UNCHANGED poisoned
                      /\ publish_pc' = "idle"
    /\ UNCHANGED <<treeVars, last_call, last_query, minerVars, netVars,
                   orderVars, puzzle_pc, last_puzzle,
                   nakamoto_pc>>

NextEngine ==
    \/ ChainGrows
    \/ PuzzleLockChain
    \/ PuzzleLockPool
    \/ PuzzleBuild
    \/ PublishLock
    \/ PublishAddTx

SpecEngine == Init /\ [][NextEngine]_vars

\* ------------------------------------------------------------------------
\* Two trees that are handed the same blocks, each block once, in any order
\* (lib_chain/src/block.rs, add_block)
\* ------------------------------------------------------------------------

\* the blocks handed over: each passes validate_block, and each is admitted
\* once its parent is in the tree
OrderBlocks == {KBlock(1), KBlock(2), F1}

\* the first tree is handed a block it has not been handed yet
DeliverA ==
    \E block \in OrderBlocks :
        /\ block.header.block_id \notin delivered
        /\ \E out \in add_block(BlockTree, block, LEADING_ZERO_LEN) :
              /\ SetBlockTree(out.bt)
              /\ last_call' = [block |-> block, result |-> out.result]
        /\ last_query' = NoQuery
        /\ delivered' = delivered \cup {block.header.block_id}
        /\ UNCHANGED <<poolVars, last_pool_call, minerVars, netVars,
                       puzzleVars, tree_b, delivered_b>>

\* the second tree is handed a block it has not been handed yet
DeliverB ==
    \E block \in OrderBlocks :
        /\ block.header.block_id \notin delivered_b
        /\ \E out \in add_block(tree_b, block, LEADING_ZERO_LEN) :
              tree_b' = out.bt
        /\ delivered_b' = delivered_b \cup {block.header.block_id}
        /\ UNCHANGED <<chainVars, minerVars, netVars, puzzleVars, delivered>>

NextOrder == DeliverA \/ DeliverB

SpecOrder == Init /\ [][NextOrder]_vars

\* ------------------------------------------------------------------------
\* Reference notions the properties are stated with
\* ------------------------------------------------------------------------

\* a < b for strings, as sequences of digits: the first difference decides,
\* and a proper prefix is the smaller one
LexLess(a, b) ==
    \/ /\ Len(a) < Len(b)
       /\ \A i \in 1..Len(a) : a[i] = b[i]
    \/ \E i \in 1..Len(a) :
        /\ i <= Len(b)
        /\ a[i] < b[i]
        /\ \A j \in 1..(i - 1) : a[j] = b[j]

\* the ids on the parent links from the genesis block down to block_id
RECURSIVE PathTo(_, _)
PathTo(blocks, block_id) ==
    IF block_id = GENESIS_ID THEN <<GENESIS_ID>>
    ELSE Append(PathTo(blocks, blocks[block_id].header.parent), block_id)

\* a is b or an ancestor of b along the parent links
IsAncestorOrEqual(blocks, a, b) ==
    \E i \in 1..Len(PathTo(blocks, b)) : PathTo(blocks, b)[i] = a

\* the balance of a user, 0 for a user without a mapping
BalanceOf(balances, user) == IF user \in DOMAIN balances THEN balances[user] ELSE 0

\* the balances after txs[i..] were applied, without any check
RECURSIVE RefTransfers(_, _, _)
RefTransfers(balances, txs, i) ==
    IF i > Len(txs) THEN balances
    ELSE LET amount == ParseAmount(txs[i].message)
             debited == Insert(balances, txs[i].sender,
                               BalanceOf(balances, txs[i].sender) - amount)
             credited == Insert(debited, txs[i].receiver,
                                BalanceOf(debited, txs[i].receiver) + amount)
         IN  RefTransfers(credited, txs, i + 1)

\* the genesis credit
GenesisBalances == Insert(EmptyMap, ALICE, GENESIS_AMOUNT)

\* the reference replay of path[1..n]: the genesis credit, then for each
\* later block of the path its transfers and then $10 to its reward_receiver
RECURSIVE RefReplay(_, _, _)
RefReplay(blocks, path, n) ==
    IF n <= 1 THEN GenesisBalances
    ELSE LET before == RefReplay(blocks, path, n - 1)
             block == blocks[path[n]]
             after == RefTransfers(before, block.transactions_block.transactions, 1)
         IN  Insert(after, block.header.reward_receiver,
                    BalanceOf(after, block.header.reward_receiver) + MINING_REWARD)

\* the sum of the values of a map
RECURSIVE SumValues(_)
SumValues(map) ==
    IF DOMAIN map = {} THEN 0
    ELSE LET k == CHOOSE k \in DOMAIN map : TRUE
         IN  map[k] + SumValues(Remove(map, k))

\* the TxIds of the non-genesis blocks of path[1..n]
RECURSIVE PathTxIds(_, _, _)
PathTxIds(blocks, path, n) ==
    IF n <= 1 THEN {}
    ELSE TxIdsOf(blocks[path[n]]) \cup PathTxIds(blocks, path, n - 1)

GenesisTxIds == TxIdsOf(genesis_block)

\* the path from genesis to the finalized block
FinalizedPath == PathTo(all_blocks, finalized_block_id)

\* some add_block call has returned
Called == last_call.result # "none"

IsErr(result) == result \notin {Ok, "none"}

\* the block of the universe with this id (the ids of the universe are unique)
BlockById(block_id) == CHOOSE b \in BlockUniverse : b.header.block_id = block_id

UniverseIds == {b.header.block_id : b \in BlockUniverse}

\* the universe's blocks as a map, with the genesis block
UniverseMap ==
    [id \in UniverseIds \cup {GENESIS_ID} |->
        IF id = GENESIS_ID THEN genesis_block ELSE BlockById(id)]

\* the chain of the block reaches genesis through blocks of the universe
RECURSIVE Rooted(_, _)
Rooted(block_id, fuel) ==
    \/ block_id = GENESIS_ID
    \/ /\ fuel > 0
       /\ block_id \in UniverseIds
       /\ Rooted(BlockById(block_id).header.parent, fuel - 1)

\* the transfers txs[i..] overdraw no sender
RECURSIVE NoOverdraw(_, _, _)
NoOverdraw(balances, txs, i) ==
    \/ i > Len(txs)
    \/ /\ txs[i].sender \in DOMAIN balances
       /\ balances[txs[i].sender] >= ParseAmount(txs[i].message)
       /\ NoOverdraw(RefTransfers(balances, <<txs[i]>>, 1), txs, i + 1)

\* the block passes R2, R4 and R5 on its own chain, and so does every
\* ancestor of it: the rules of admission, stated on the chain alone
RECURSIVE RefAdmissible(_)
RefAdmissible(block) ==
    LET block_id == block.header.block_id
        parent_id == block.header.parent
        txs == block.transactions_block.transactions
        path == PathTo(UniverseMap, parent_id)
    IN  /\ Rooted(block_id, Cardinality(UniverseIds))
        /\ validate_block(block, LEADING_ZERO_LEN) = <<TRUE, block_id>>
        /\ parent_id = GENESIS_ID \/ RefAdmissible(BlockById(parent_id))
        /\ TxIdsOf(block) \cap PathTxIds(UniverseMap, path, Len(path)) = {}
        /\ NoOverdraw(RefReplay(UniverseMap, path, Len(path)), txs, 1)

\* the orphan hangs on block_id: its parent links lead to it through orphans
RECURSIVE HangsOn(_, _, _)
HangsOn(orphan_map, orphan_id, block_id) ==
    LET parent_id == orphan_map[orphan_id].header.parent
    IN  \/ parent_id = block_id
        \/ /\ parent_id \in DOMAIN orphan_map
           /\ HangsOn(orphan_map, parent_id, block_id)

\* the number of occurrences of x in the list
Count(list, x) == Cardinality({i \in 1..Len(list) : list[i] = x})

\* ------------------------------------------------------------------------
\* Properties of BlockTree::add_block
\* ------------------------------------------------------------------------

\* C1: after every add_block call, working_block_id is a block of maximum
\* block_depth among all_blocks, and among the blocks of that depth the one
\* with the lexicographically greatest block_id.
C1_WorkingIsDeepestGreatest ==
    Called =>
        \A b \in DOMAIN all_blocks :
            \/ block_depth[b] < block_depth[working_block_id]
            \/ /\ block_depth[b] = block_depth[working_block_id]
               /\ b = working_block_id \/ LexLess(b, working_block_id)

\* C2: after every add_block call, the depth of finalized_block_id is
\* max(0, depth of working_block_id - 6).
C2_FinalizedDepth ==
    Called =>
        block_depth[finalized_block_id] =
            IF block_depth[working_block_id] > 6
            THEN block_depth[working_block_id] - 6
            ELSE 0

\* C3: after every add_block call, the working block is at most 6 deeper than
\* the finalized block, and the finalized block is the working block or an
\* ancestor of it along the parent links.
C3_FinalizationLaw ==
    /\ block_depth[working_block_id] - block_depth[finalized_block_id] <= 6
    /\ IsAncestorOrEqual(all_blocks, finalized_block_id, working_block_id)

\* C3's case: a call has admitted a block at a depth beyond 6, where a
\* finalized block that stayed behind would break the law
C3_Witness ==
    /\ last_call.result = Ok
    /\ last_call.block.header.block_id = working_block_id
    /\ block_depth[working_block_id] > 6

\* C4: across add_block calls the depth of finalized_block_id never
\* decreases, and the new finalized block is the previous one or a
\* descendant of it.
C4_FinalizationMonotonic ==
    [][/\ block_depth'[finalized_block_id'] >= block_depth[finalized_block_id]
       /\ IsAncestorOrEqual(all_blocks', finalized_block_id, finalized_block_id')
      ]_vars

\* C5: after every add_block call, the values of finalized_balance_map sum to
\* 299_792_458 + 10 * (number of non-genesis blocks on the path from genesis
\* to finalized_block_id).
C5_BalanceSum ==
    Called =>
        SumValues(finalized_balance_map) =
            GENESIS_AMOUNT + MINING_REWARD * (Len(FinalizedPath) - 1)

\* C6: after every add_block call, finalized_balance_map is the reference
\* replay of the path from genesis to finalized_block_id: the genesis credit,
\* then each block's transfers followed by $10 to its reward_receiver; no
\* other block contributes.
C6_BalanceIsReplay ==
    Called =>
        finalized_balance_map =
            RefReplay(all_blocks, FinalizedPath, Len(FinalizedPath))

\* C7: after every add_block call, finalized_tx_ids is the union of the TxIds
\* of the blocks on the path from genesis to finalized_block_id.  (Stated
\* leniently: whether the synthetic genesis transaction counts is left open.)
C7_FinalizedTxIds ==
    Called =>
        finalized_tx_ids \ GenesisTxIds =
            PathTxIds(all_blocks, FinalizedPath, Len(FinalizedPath)) \ GenesisTxIds

\* C8: whenever add_block returns an error, every field of the BlockTree has
\* the value it had before the call.
C8_ErrorLeavesTreeUnchanged ==
    [][IsErr(last_call'.result) => UNCHANGED treeVars]_vars

\* C9: after every add_block call, orphans holds no block whose parent is a
\* key of all_blocks.
C9_NoOrphanWithKnownParent ==
    \A orphan_id \in DOMAIN orphans :
        orphans[orphan_id].header.parent \notin DOMAIN all_blocks

\* C10: a valid block waiting in orphans is admitted, exactly once, by the
\* call that admits the block it hangs on (directly, or through a chain of
\* waiting orphans): it is then in all_blocks and not in orphans, one deeper
\* than its parent and listed once among its parent's children; and a later
\* add_block of an admitted block is rejected and changes nothing.
C10_OrphanPromotion ==
    [][LET arg == last_call'.block.header.block_id
       IN  /\ (arg \notin DOMAIN all_blocks /\ arg \in DOMAIN all_blocks') =>
                \A o \in DOMAIN orphans :
                    (HangsOn(orphans, o, arg) /\ RefAdmissible(orphans[o])) =>
                        /\ o \in DOMAIN all_blocks'
                        /\ o \notin DOMAIN orphans'
                        /\ block_depth'[o] =
                              block_depth'[orphans[o].header.parent] + 1
                        /\ orphans[o].header.parent \in DOMAIN children_map'
                        /\ Count(children_map'[orphans[o].header.parent], o) = 1
           /\ arg \in DOMAIN all_blocks =>
                (IsErr(last_call'.result) /\ UNCHANGED treeVars)
      ]_vars

\* the transfers txs[i..] leave no sender with a negative balance
RECURSIVE StaysNonNegative(_, _, _)
StaysNonNegative(balances, txs, i) ==
    \/ i > Len(txs)
    \/ /\ BalanceOf(balances, txs[i].sender) - ParseAmount(txs[i].message) >= 0
       /\ StaysNonNegative(RefTransfers(balances, <<txs[i]>>, 1), txs, i + 1)

\* the replay of path[1..n] leaves no sender with a negative balance
ReplayStaysNonNegative(blocks, path) ==
    \A n \in 2..Len(path) :
        StaysNonNegative(RefReplay(blocks, path, n - 1),
                         blocks[path[n]].transactions_block.transactions, 1)

\* C11: for every admitted block, the replay of the transfers and rewards
\* along the path from genesis to it makes no sender's balance negative
\* (add_block rejects a block that overdraws a sender on its own chain, also
\* when its parent is not the block admitted last).
C11_NoNegativeBalance ==
    \A b \in DOMAIN all_blocks :
        ReplayStaysNonNegative(all_blocks, PathTo(all_blocks, b))

\* C12: for every admitted block and every transaction of it, the TxId
\* occurs in no ancestor block of it (add_block rejects a block that repeats
\* a transaction of its chain).
C12_TxUniqueOnChain ==
    \A b \in DOMAIN all_blocks \ {GENESIS_ID} :
        LET path == PathTo(all_blocks, all_blocks[b].header.parent)
        IN  \A n \in 1..Len(path) :
                TxIdsOf(all_blocks[b]) \cap TxIdsOf(all_blocks[path[n]]) = {}

\* C12's case: a block that repeats a transaction of its parent was handed
\* over while its parent was in the tree, and was rejected for it
C12_Witness ==
    /\ last_call.result = Err("duplicate transactions")
    /\ last_call.block.header.parent \in DOMAIN all_blocks
    /\ TxIdsOf(last_call.block)
          \cap TxIdsOf(all_blocks[last_call.block.header.parent]) # {}

\* C13: depth law.  The genesis block has depth 0, and every other block of
\* all_blocks has its parent in all_blocks and a depth one more than its
\* parent's.
C13_DepthLaw ==
    /\ GENESIS_ID \in DOMAIN block_depth
    /\ block_depth[GENESIS_ID] = 0
    /\ \A b \in DOMAIN all_blocks \ {GENESIS_ID} :
            LET parent == all_blocks[b].header.parent
            IN  /\ parent \in DOMAIN all_blocks
                /\ b \in DOMAIN block_depth
                /\ parent \in DOMAIN block_depth
                /\ block_depth[b] = block_depth[parent] + 1

\* the working block (the block inserted last) has depth 2 and its parent is
\* the older of two children of genesis: the younger one was the working block
\* when the block was inserted under its parent
C13_Witness ==
    /\ working_block_id \in DOMAIN block_depth
    /\ block_depth[working_block_id] = 2
    /\ GENESIS_ID \in DOMAIN children_map
    /\ Len(children_map[GENESIS_ID]) = 2
    /\ children_map[GENESIS_ID][1] = all_blocks[working_block_id].header.parent
    /\ children_map[GENESIS_ID][2] \in DOMAIN all_blocks

\* the ids of the blocks listed as children in children_map, with repetitions
\* counted
ChildCount(map, block_id) ==
    LET RECURSIVE Sum(_)
        Sum(keys) ==
            IF keys = {} THEN 0
            ELSE LET k == CHOOSE x \in keys : TRUE
                 IN  Count(map[k], block_id) + Sum(keys \ {k})
    IN  Sum(DOMAIN map)

\* C14: an add_block call whose argument's id is a key of all_blocks or of
\* orphans returns an error (and stores nothing); after every call all_blocks
\* and orphans are disjoint and no id is listed twice as a child.
C14_ExistingIdRejected ==
    [][LET arg == last_call'.block.header.block_id
       IN  /\ (arg \in DOMAIN all_blocks \/ arg \in DOMAIN orphans) =>
                (IsErr(last_call'.result) /\ UNCHANGED treeVars)
           /\ DOMAIN all_blocks' \cap DOMAIN orphans' = {}
           /\ \A id \in DOMAIN all_blocks' \cup DOMAIN orphans' :
                    ChildCount(children_map', id) <= 1
      ]_vars

\* the last call was handed a block whose id waits in orphans, and was
\* rejected
C14_Witness ==
    /\ last_call.result = Err("exists")
    /\ last_call.block.header.block_id \in DOMAIN orphans

\* the argument of the step's add_block call is self-valid and its parent is
\* not a key of all_blocks
ParentlessValidCall ==
    LET b == last_call'.block
    IN  /\ validate_block(b, LEADING_ZERO_LEN) = <<TRUE, b.header.block_id>>
        /\ b.header.parent \notin DOMAIN all_blocks

\* the step's call returned success and did nothing but insert its argument
\* into orphans
ParkedOnly ==
    LET b == last_call'.block
    IN  /\ last_call'.result = Ok
        /\ orphans' = Insert(orphans, b.header.block_id, b)
        /\ UNCHANGED <<all_blocks, children_map, block_depth, root_id,
                       working_block_id, finalized_block_id,
                       finalized_balance_map, finalized_tx_ids>>

\* C15 as stated: every add_block call with a self-valid block whose parent
\* is not in all_blocks returns success and only inserts it into orphans.
C15_Original ==
    [][ParentlessValidCall => ParkedOnly]_vars

\* C15, amended: an add_block call with a self-valid block whose id is not
\* yet a key of all_blocks or orphans and whose parent is not in all_blocks
\* returns success and only inserts the block into orphans; every other field
\* of the tree is unchanged.
C15_OrphanParked ==
    [][(/\ ParentlessValidCall
        /\ ~block_exists(BlockTree, last_call'.block.header.block_id))
            => ParkedOnly]_vars

\* the last call parked its argument: it returned success and the block waits
\* in orphans, its parent unknown
C15_Witness ==
    /\ last_call.result = Ok
    /\ last_call.block.header.block_id \in DOMAIN orphans
    /\ last_call.block.header.parent \notin DOMAIN all_blocks

\* C16: once the six blocks of a chain genesis <- E(1) <- ... <- E(6) without
\* transfers are admitted, E(1) is the finalized block, its reward receiver
\* holds exactly the reward of one block in finalized_balance_map, and the
\* map has exactly two entries.
C16_SixEmptyBlocks ==
    (\A i \in 1..6 : EId(i) \in DOMAIN all_blocks) =>
        /\ finalized_block_id = EId(1)
        /\ BalanceOf(finalized_balance_map, EBlock(1).header.reward_receiver)
              = MINING_REWARD
        /\ Cardinality(DOMAIN finalized_balance_map) = 2

\* the blocks on the chain strictly after block_id up to and including the
\* last block of path, from the oldest to the newest (block_id is on path)
BlocksAfter(blocks, path, block_id) ==
    LET k == CHOOSE i \in 1..Len(path) : path[i] = block_id
    IN  [j \in 1..(Len(path) - k) |-> blocks[path[k + j]]]

\* the last query was get_finalized_blocks_since(id)
AskedSince == last_query.kind = "since"

\* the id the last query was asked about is the finalized block or one of its
\* ancestors
AskedSinceAncestor ==
    /\ AskedSince
    /\ IsAncestorOrEqual(all_blocks, last_query.since, finalized_block_id)

\* C17: get_finalized_blocks_since(id), for id the finalized block or one of
\* its ancestors, returns the blocks of the chain strictly after id up to and
\* including the finalized block, oldest first (none for id = finalized).
C17_FinalizedBlocksSince ==
    AskedSinceAncestor =>
        last_query.result =
            Returned(BlocksAfter(all_blocks, FinalizedPath, last_query.since))

\* C18: get_finalized_blocks_since(id) comes back with a list when id is the
\* finalized block or one of its ancestors (genesis included), and fails,
\* neither returning a list nor looping forever, for every other id.
C18_SinceTerminatesOrFails ==
    AskedSince =>
        IF IsAncestorOrEqual(all_blocks, last_query.since, finalized_block_id)
        THEN last_query.result.outcome = "return"
        ELSE last_query.result.outcome = "panic"

\* the transactions of the blocks path[n], path[n-1], ..., path[k+1], each
\* block's in its own order, without those whose TxId is in tx_ids
RECURSIVE TxsDownTo(_, _, _, _, _)
TxsDownTo(blocks, path, n, k, tx_ids) ==
    IF n <= k THEN <<>>
    ELSE SelectSeq(blocks[path[n]].transactions_block.transactions,
                   LAMBDA tx : gen_hash(tx) \notin tx_ids)
            \o TxsDownTo(blocks, path, n - 1, k, tx_ids)

\* C19: get_pending_finalization_txs returns, and its list holds exactly the
\* transactions of the blocks on the path from the working block down to, but
\* excluding, the finalized block whose TxId is not in finalized_tx_ids.
C19_PendingFinalizationTxs ==
    last_query.kind = "pending" =>
        LET path == PathTo(all_blocks, working_block_id)
        IN  /\ IsAncestorOrEqual(all_blocks, finalized_block_id, working_block_id)
            /\ last_query.result =
                  Returned(TxsDownTo(all_blocks, path, Len(path),
                                     Len(FinalizedPath), finalized_tx_ids))

\* the pending transactions were asked for while the working block, which is
\* not the finalized block, carries a transaction
C19_Witness ==
    /\ last_query.kind = "pending"
    /\ working_block_id # finalized_block_id
    /\ Len(last_query.result.value) > 0

\* C20: add_tx(tx) returns true and appends tx at the end of pool_tx_ids (and
\* stores it in pool_tx_map) exactly when tx is not in the pool, its TxId is
\* not in removed_tx_ids, the pool holds fewer than MAX_TX_POOL transactions
\* and the signature verifies; otherwise it returns false and pool_tx_ids,
\* pool_tx_map and removed_tx_ids are unchanged.
C20_AddTx ==
    [][last_pool_call'.op = "add_tx" =>
        LET tx == last_pool_call'.tx
            tx_id == gen_hash(tx)
            accepted ==
                /\ tx_id \notin DOMAIN pool_tx_map
                /\ \A i \in 1..Len(pool_tx_ids) : pool_tx_ids[i] # tx_id
                /\ tx_id \notin removed_tx_ids
                /\ Len(pool_tx_ids) < MAX_TX_POOL
                /\ verify_sig(tx)
        IN  IF accepted
            THEN /\ last_pool_call'.result = "true"
                 /\ pool_tx_ids' = Append(pool_tx_ids, tx_id)
                 /\ pool_tx_map' = Insert(pool_tx_map, tx_id, tx)
                 /\ removed_tx_ids' = removed_tx_ids
            ELSE /\ last_pool_call'.result = "false"
                 /\ UNCHANGED <<pool_tx_ids, pool_tx_map, removed_tx_ids>>
      ]_vars

\* the TxIds of the transactions of the blocks of a list
TxIdsOfBlocks(blocks) ==
    UNION {TxIdsOf(blocks[n]) : n \in 1..Len(blocks)}

\* tx_id is in the pool: in pool_tx_map or in pool_tx_ids
InPool(ids, map, tx_id) ==
    \/ tx_id \in DOMAIN map
    \/ \E i \in 1..Len(ids) : ids[i] = tx_id

FirstNotExcluded(ids, map, max, excluding) ==
    LET kept == SelectSeq(ids, LAMBDA tx_id :
                    \A j \in 1..Len(excluding) : gen_hash(excluding[j]) # tx_id)
        n == IF Len(kept) < max THEN Len(kept) ELSE max
    IN  [i \in 1..n |-> map[kept[i]]]

\* C22: filter_tx(max, excluding) returns at most max transactions, for every
\* max >= 0: the first (up to max) transactions of the pool, in the order of
\* insertion, whose TxId is not the TxId of a transaction of excluding; and
\* the pool is unchanged.
C22_FilterTx ==
    [][last_pool_call'.op = "filter_tx" =>
        /\ Len(last_pool_call'.value) <= last_pool_call'.max_count
        /\ last_pool_call'.value =
              FirstNotExcluded(pool_tx_ids, pool_tx_map,
                               last_pool_call'.max_count,
                               last_pool_call'.excluding)
        /\ UNCHANGED poolVars
      ]_vars

\* C23: a call remove_txs_from_finalized_blocks(blocks) with a list that has
\* a last block returns, and after it no transaction of a listed block is in
\* pool_tx_ids or pool_tx_map, their TxIds are in removed_tx_ids, the other
\* transactions of the pool are all still there in the order they had, and
\* last_finalized_block_id is the block_id of the last block of the list.
C23_RemoveTxsFromFinalizedBlocks ==
    [][(/\ last_pool_call'.op = "remove_txs_from_finalized_blocks"
        /\ Len(last_pool_call'.blocks) > 0) =>
        LET blocks == last_pool_call'.blocks
            tx_ids == TxIdsOfBlocks(blocks)
        IN  /\ last_pool_call'.result = "unit"
            /\ \A tx_id \in tx_ids :
                    /\ ~InPool(pool_tx_ids', pool_tx_map', tx_id)
                    /\ tx_id \in removed_tx_ids'
            /\ pool_tx_ids' =
                  SelectSeq(pool_tx_ids, LAMBDA tx_id : tx_id \notin tx_ids)
            /\ pool_tx_map' =
                  [tx_id \in DOMAIN pool_tx_map \ tx_ids |-> pool_tx_map[tx_id]]
            /\ last_finalized_block_id' = blocks[Len(blocks)].header.block_id
      ]_vars

\* two different blocks were handed over as finalized, their transactions
\* are removed, and two other transactions remain in the pool
C23_Witness ==
    /\ last_pool_call.op = "remove_txs_from_finalized_blocks"
    /\ last_pool_call.result = "unit"
    /\ Len(last_pool_call.blocks) = 2
    /\ last_pool_call.blocks[1] # last_pool_call.blocks[2]
    /\ last_finalized_block_id = last_pool_call.blocks[2].header.block_id
    /\ TxIdsOfBlocks(last_pool_call.blocks) \subseteq removed_tx_ids
    /\ Len(pool_tx_ids) = 2

\* C24: whenever solve_puzzle returns Some(s), s.puzzle is the puzzle handed
\* in, s.nonce has exactly nonce_len characters, s.hash is
\* hex(SHA256(s.nonce || s.puzzle)) and s.hash starts with at least
\* leading_zero_len '0' characters, for every thread_count and whichever
\* worker's solution the coordinator took.
C24_SolutionIsValid ==
    (main_pc = "returned" /\ solution.some) =>
        LET s == solution.value
        IN  /\ s.puzzle = miner_args.puzzle
            /\ Len(s.nonce) = miner_args.nonce_len
            /\ s.hash = hex_sha256(s.nonce, s.puzzle)
            /\ starts_with_zeros(s.hash, miner_args.leading_zero_len)

\* two workers searched for two leading zeros, both found a solution, and the
\* call returned the one of them that the coordinator took first
C24_Witness ==
    /\ main_pc = "returned"
    /\ solution.some
    /\ miner_args.thread_count = 2
    /\ miner_args.nonce_len = 2
    /\ miner_args.leading_zero_len = 2
    /\ channel # <<>>
    /\ channel[1] # solution.value

\* C25: if the cancellation token is set while solve_puzzle runs and the
\* coordinator has not taken a solution yet, then solve_puzzle returns None
\* and every worker terminates, and a worker that starts an iteration with
\* the token set ends there.
C25_CancelEndsTheCall ==
    /\ (cancellation_token /\ main_pc \in {"check", "try_recv"})
          ~> (/\ main_pc = "returned"
              /\ ~solution.some
              /\ \A i \in Workers : Terminated(i))
    /\ [][\A i \in Workers :
            (cancellation_token /\ worker_pc[i] = "loop"
                /\ worker_pc'[i] # "loop") => worker_pc'[i] = "done"]_vars

\* C26: when solve_puzzle has returned, with a solution or cancelled, every
\* worker has terminated and has been joined, and if it returned a solution
\* the cancellation token is set.
C26_JoinedOnReturn ==
    main_pc = "returned" =>
        /\ \A i \in Workers : Terminated(i)
        /\ joined = miner_args.thread_count
        /\ solution.some => cancellation_token

\* the first solution in the stream of nonces of a generator, if it has one
\* within the period of the generator
RECURSIVE FirstSolution(_, _, _, _, _)
FirstSolution(rng, puzzle, nonce_len, leading_zero_len, fuel) ==
    LET out == search(rng, puzzle, nonce_len, leading_zero_len)
    IN  IF out.found THEN Some(out.solution)
        ELSE IF fuel = 0 THEN NoSolution
        ELSE FirstSolution(out.rng, puzzle, nonce_len, leading_zero_len,
                           fuel - 1)

\* C27: with thread_count = 1 and no cancellation by the caller, what
\* solve_puzzle returns is a function of puzzle, nonce_len, leading_zero_len
\* and thread_0_seed alone: the first solution in the stream of the generator
\* seeded with thread_0_seed.  Two runs with the same four arguments return
\* the same nonce and the same hash.
C27_SingleThreadDeterministic ==
    (main_pc = "returned" /\ miner_args.thread_count = 1
        /\ ~cancel_requested) =>
        /\ solution.some
        /\ solution =
              FirstSolution(seed_from_u64(miner_args.thread_0_seed),
                            miner_args.puzzle, miner_args.nonce_len,
                            miner_args.leading_zero_len, RngModulus)

\* a single worker, not cancelled, found a solution with two leading zeros
\* that was not the first nonce it drew
C27_Witness ==
    /\ main_pc = "returned"
    /\ miner_args.thread_count = 1
    /\ ~cancel_requested
    /\ solution.some
    /\ miner_args.leading_zero_len = 2
    /\ miner_args.nonce_len = 2
    /\ solution.value.nonce #
          gen_nonce(seed_from_u64(miner_args.thread_0_seed), 2).nonce

\* the line that carries a block or a transaction, as serde_json writes it
BlockLine(block) == Line("block", Json("object", "BlockNode", block))

TxLine(tx) == Line("tx", Json("object", "Transaction", tx))

OnWire(n, msg) == \E k \in 1..Len(wire[n]) : wire[n][k] = msg

\* the node has a connection to the neighbor that it can write to
Live(n) == writer_pc[n] = "running"

\* C28: every block written to block_out and every transaction written to
\* tx_out is eventually sent, as its 'block:<json>' or 'tx:<json>' line, to
\* every neighbor that has a live connection.
C28_BroadcastReachesNeighbors ==
    /\ \A block \in OutBlocks :
          (block \in block_out_log)
              ~> (\A n \in Neighbors : Live(n) => OnWire(n, BlockLine(block)))
    /\ \A tx \in OutTxs :
          (tx \in tx_out_log)
              ~> (\A n \in Neighbors : Live(n) => OnWire(n, TxLine(tx)))

\* a 'block' or 'tx' line whose JSON text is complete and of the tagged type
WellFormed(msg) ==
    /\ msg.json.form \in {"object", "array"}
    /\ \/ msg.tag = "block" /\ msg.json.type = "BlockNode"
       \/ msg.tag = "tx" /\ msg.json.type = "Transaction"

\* C29: when a reader, of an accepted connection or of a connection the node
\* opened, handles a well-formed 'block' or 'tx' line, the value is placed on
\* block_in or tx_in respectively, once, and nothing on the other queue.
C29_ReceivedOnce ==
    [][(last_net'.thread # "none" /\ WellFormed(last_net'.msg)) =>
        IF last_net'.msg.tag = "block"
        THEN /\ block_in' = Append(block_in, last_net'.msg.json.value)
             /\ tx_in' = tx_in
        ELSE /\ tx_in' = Append(tx_in, last_net'.msg.json.value)
             /\ block_in' = block_in
      ]_vars

\* C30: when the connection to at most one configured neighbor could not be
\* established or broke, create does not panic, and the writer and the
\* reader of every other neighbor do not stop.
C30_OnlyFailedNeighborDropped ==
    Cardinality(failed) <= 1 =>
        /\ net_pc # "panicked"
        /\ \A n \in Neighbors \ failed :
              /\ writer_pc[n] # "stopped"
              /\ reader_pc[n] \notin {"stopped", "panicked"}

\* a tagged line whose payload is missing or is not a JSON text
Malformed(msg) ==
    /\ msg.tag \in {"block", "tx", "block_id"}
    /\ msg.json.form \in {"absent", "broken"}

\* C31: a received line whose payload fails JSON parsing is discarded and is
\* fatal to that line only: nothing is queued for it and the reader that
\* handled it is still reading its connection afterwards.
C31_MalformedIsDiscarded ==
    [][(last_net'.thread # "none" /\ Malformed(last_net'.msg)) =>
        /\ UNCHANGED <<block_in, tx_in, block_id_in, writer_chan, pulls>>
        /\ IF last_net'.thread = "inbound"
           THEN inbound_pc'[last_net'.conn] = "reading"
           ELSE reader_pc'[last_net'.conn] = "reading"
      ]_vars

\* a step in which create_puzzle returns
PuzzleReturns == puzzle_pc = "both_locked" /\ puzzle_pc' = "idle"

\* the blocks of the hash table that solve a puzzle
SolutionsOf(puzzle) == {b \in MinedBlocks : Puzzle(b.header) = puzzle}

\* the candidate block completed with a solution's nonce and hash
Seal(pre_block, solved) ==
    [pre_block EXCEPT !.header.nonce = solved.header.nonce,
                      !.header.block_id = solved.header.block_id]

\* C32: create_puzzle returns a puzzle whose parent is working_block_id and
\* whose merkle_root is the Merkle root of the selected transactions, the
\* candidate block's header carries the same parent and merkle_root, and the
\* candidate sealed with any solution of the puzzle passes validate_block
\* and becomes the new tip, one block above the old one.
C32_PuzzleExtendsTheTip ==
    [][PuzzleReturns =>
        LET puzzle == last_puzzle'.value.puzzle
            pre_block == last_puzzle'.value.pre_block
        IN  /\ puzzle.parent = working_block_id
            /\ puzzle.merkle_root =
                  RootOf(pre_block.transactions_block.transactions)
            /\ Puzzle(pre_block.header) = puzzle
            /\ \A solved \in SolutionsOf(puzzle) :
                  /\ validate_block(Seal(pre_block, solved),
                                    LEADING_ZERO_LEN)[1]
                  /\ \A out \in add_block(BlockTree, Seal(pre_block, solved),
                                          LEADING_ZERO_LEN) :
                        /\ out.result = "true"
                        /\ out.bt.working_block_id =
                              solved.header.block_id
                        /\ Seal(pre_block, solved).header.parent =
                              working_block_id
      ]_vars

\* the ids of the blocks from block_id up the parent links, until the block
\* stop (left out) or a block the tree does not hold
RECURSIVE ChainDownTo(_, _, _, _)
ChainDownTo(blocks, block_id, stop, n) ==
    IF n = 0 \/ block_id = stop \/ block_id \notin DOMAIN blocks THEN {}
    ELSE {block_id} \cup
         ChainDownTo(blocks, blocks[block_id].header.parent, stop, n - 1)

\* the TxIds of the blocks from the working block down to the finalized one
PendingTxIds ==
    UNION {TxIdsOf(all_blocks[block_id]) :
             block_id \in ChainDownTo(all_blocks, working_block_id,
                                      finalized_block_id,
                                      Cardinality(DOMAIN all_blocks))}

\* C33: the transactions create_puzzle selects are transactions of the pool,
\* in the order of insertion; none of them is in a block of the chain from
\* working_block_id down to finalized_block_id, and none is finalized.
C33_SelectedArePendingFree ==
    [][PuzzleReturns =>
        LET selected ==
                last_puzzle'.value.pre_block.transactions_block.transactions
            ids == [i \in 1..Len(selected) |-> gen_hash(selected[i])]
        IN  /\ ids = SelectSeq(pool_tx_ids, LAMBDA tx_id :
                                \E i \in 1..Len(ids) : ids[i] = tx_id)
            /\ \A i \in 1..Len(ids) : selected[i] = pool_tx_map[ids[i]]
            /\ \A i \in 1..Len(ids) :
                    /\ ids[i] \notin finalized_tx_ids
                    /\ ids[i] \notin PendingTxIds
      ]_vars

\* a step in which create_puzzle ends, by a return or by a panic
PuzzleEnds == puzzle_pc = "both_locked" /\ puzzle_pc' # "both_locked"

\* every transaction of the pool is finalized or in a block of the chain from
\* the working block down to the finalized one
NoneEligible ==
    \A i \in 1..Len(pool_tx_ids) :
        pool_tx_ids[i] \in finalized_tx_ids \cup PendingTxIds

\* C36: when no transaction of the pool is eligible, create_puzzle returns,
\* its candidate block has an empty transaction list, and the candidate
\* sealed with a solution of the puzzle is admitted by add_block.
C36_EmptyPuzzleIsBuilt ==
    [][(PuzzleEnds /\ NoneEligible) =>
        LET puzzle == last_puzzle'.value.puzzle
            pre_block == last_puzzle'.value.pre_block
        IN  /\ last_puzzle'.outcome = "return"
            /\ pre_block.transactions_block.transactions = <<>>
            /\ \A solved \in SolutionsOf(puzzle) :
                  \A out \in add_block(BlockTree, Seal(pre_block, solved),
                                        LEADING_ZERO_LEN) :
                      out.result = "true"
      ]_vars

\* the mutex a thread asks for next, if it asks for one
WaitsFor(thread) ==
    IF thread = "puzzle"
    THEN (IF puzzle_pc = "idle" THEN {"BlockTree"}
          ELSE IF puzzle_pc = "chain_locked" THEN {"TxPool"} ELSE {})
    ELSE (IF publish_pc = "idle" THEN {"TxPool"} ELSE {})

\* thread waits for a mutex that other holds
BlockedBy(thread, other) ==
    \E lock \in WaitsFor(thread) : Holds(other, lock)

\* C35 as stated: a thread that holds both mutexes acquired TxPool first.
C35_TxPoolFirst ==
    \A thread \in Threads :
        Len(held[thread]) = 2 => held[thread][1] = "TxPool"

\* C35: a thread that holds both mutexes acquired BlockTree first and TxPool
\* second, no thread acquires BlockTree while it holds TxPool, no mutex is
\* held by two threads, and no two threads wait for each other.
C35_BlockTreeFirst ==
    /\ \A thread \in Threads :
          /\ Len(held[thread]) = 2 => held[thread] = <<"BlockTree", "TxPool">>
          /\ Len(held[thread]) = 1 /\ Holds(thread, "TxPool") =>
                "BlockTree" \notin WaitsFor(thread)
    /\ \A lock \in {"BlockTree", "TxPool"} :
          ~(Holds("main", lock) /\ Holds("puzzle", lock))
    /\ ~(BlockedBy("main", "puzzle") /\ BlockedBy("puzzle", "main"))

\* the puzzle thread holds both mutexes while the main thread asks for one
C35_Witness ==
    /\ Holds("puzzle", "BlockTree")
    /\ Holds("puzzle", "TxPool")
    /\ BlockedBy("main", "puzzle")

\* C38: after any sequence of add_tx, del_tx and
\* remove_txs_from_finalized_blocks calls on a new pool, pool_tx_ids holds no
\* TxId twice, the TxIds of pool_tx_ids are exactly the keys of pool_tx_map,
\* and pool_tx_ids never holds more than MAX_TX_POOL entries.
C38_PoolIsConsistent ==
    /\ \A i, j \in 1..Len(pool_tx_ids) :
            pool_tx_ids[i] = pool_tx_ids[j] => i = j
    /\ {pool_tx_ids[i] : i \in 1..Len(pool_tx_ids)} = DOMAIN pool_tx_map
    /\ Len(pool_tx_ids) <= MAX_TX_POOL

\* a full pool, after a removal, has just turned a transaction away
C38_Witness ==
    /\ Len(pool_tx_ids) = MAX_TX_POOL
    /\ removed_tx_ids # {}
    /\ last_pool_call.op = "add_tx"
    /\ last_pool_call.result = "false"

\* C39: in no interleaving does a worker send on the channel after the
\* coordinator has returned and dropped the receiver: no worker's send fails
\* and panics, also when a cancellation from outside and a discovery
\* coincide.
C39_NoSendAfterReturn ==
    \A i \in Workers : worker_pc[i] # "panicked"

\* C40: a block or transaction the node writes to block_out or tx_out is not
\* delivered on the node's own block_in or tx_in: a write leaves both
\* ingress queues as they are.
C40_NoLoopback ==
    [][writes_left' # writes_left => UNCHANGED <<block_in, tx_in>>]_vars

\* C37: two trees that were handed the same set of self-valid, admissible
\* blocks, each block once, in whatever orders, have the same all_blocks,
\* the same working_block_id and the same finalized_block_id.
C37_ArrivalOrderIndependent ==
    delivered = delivered_b =>
        /\ all_blocks = tree_b.all_blocks
        /\ working_block_id = tree_b.working_block_id
        /\ finalized_block_id = tree_b.finalized_block_id

\* C34: once create_nakamoto has returned, a block received from a peer that
\* extends the tip the miner works on is admitted and becomes the working
\* block; then the cancel flag of a running solve_puzzle is set, and a
\* puzzle is built on the new tip.
C34_ReceivedBlockRestartsMining ==
    (/\ nakamoto_pc = "created"
     /\ last_net.thread = "inbound"
     /\ last_net.msg = BlockLine(KBlock(1))
     /\ working_block_id = GENESIS_ID)
      ~> (/\ working_block_id = KId(1)
          /\ main_pc # "idle" => cancellation_token
          /\ last_puzzle.called
          /\ last_puzzle.value.puzzle.parent = KId(1))

====
